---------------------------- MODULE Spec2Model ----------------------------
(***************************************************************************)
(* Zayion real-time core: WebSocketManager (src/websocket_handler.py), the *)
(* websocket endpoint that drives it (src/main.py) and LocationService     *)
(* (src/location_service.py).                                              *)
(*                                                                         *)
(* Scheduling.  Every websocket session runs one asyncio coroutine         *)
(* (websocket_endpoint).  The database calls are synchronous SQLAlchemy    *)
(* calls, so a coroutine runs without interruption from one                *)
(* `await websocket.send_text(..)` / `await websocket.receive_text()` to   *)
(* the next.  One step of the model is therefore: resume a coroutine, run  *)
(* its code up to and including the next send_text call, and suspend.  The *)
(* outcome of the send (return or raise) is seen by the coroutine when it  *)
(* is resumed; other coroutines may run in between.                        *)
(*                                                                         *)
(* Specifications.  Spec: one session per user.  SpecReconnect: a user may *)
(* connect again while an earlier session of theirs is still running.      *)
(* SpecProtocol: as Spec, with first frames that do not authenticate, with *)
(* frames that are malformed, unknown or incomplete, and with store        *)
(* commits that raise.                                                     *)
(* SpecLoc: the operations of LocationService, each of which runs without  *)
(* suspension.                                                             *)
(*                                                                         *)
(* Coordinates.  A latitude is an integer number of 1e-5 degrees; all      *)
(* points lie on one meridian (constant non-zero longitude), where both    *)
(* distance functions of the code are linear in the latitude difference.   *)
(***************************************************************************)
EXTENDS Integers, Sequences, FiniteSets, TLC

\* ------------------------------------------------------------------ bounds
NUsers == 2
NRooms == 3
\* rooms that frames name
NFrameRooms == 2
\* frames handled in a run with one session per user (Spec)
MaxFrames == 3
\* sessions, and frames handled, in a run with reconnects (SpecReconnect)
MaxSessions == 3
MaxFramesReconnect == 1
\* rooms that may get a geofence (SpecLoc)
NGeofences == 1
\* frames handled in a run of the whole protocol (SpecProtocol)
MaxFramesProtocol == 2

Users == 1..NUsers
Rooms == 1..NRooms
FrameRooms == 1..NFrameRooms
Sessions == 1..MaxSessions
Pairs == {k \in Users \X Users : k[1] < k[2]}
\* Latitudes a client reports, in 1e-5 degrees (0 is falsy in Python).
Lats == {0, 40, 200}

VARIABLES
    active_connections, \* user_id -> session (the WebSocket object)
    room_order,         \* insertion order of the keys of room_memberships
    room_memberships,   \* room_id -> set of user_ids
    user_locations,     \* user_id -> last location held by the manager
    db_memberships,     \* RoomMembership rows with is_active, in insertion order
    db_messages,        \* Message rows: the room of message id i
    db_locations,       \* LocationData rows: user_id -> latitude
    ws,                 \* per session: state of the transport
    task,               \* per session: the endpoint coroutine
    frames,             \* inbound frames handled so far (bounded by MaxFrames)
    last_new_message,   \* per session and room: id of the last new_message delivered
    unbound,            \* the sessions a call of disconnect took out of active_connections
    broadcast_log,      \* per session: what broadcast_to_all did with it
    \* LocationService
    proximity_cache,      \* (min id, max id) -> last distance computed for the pair
    geofence_order,       \* insertion order of the keys of active_geofences
    active_geofences,     \* room_id -> geofence data
    user_geofence_status, \* (user_id, room_id) -> inside
    proximity_events,     \* events returned by the last update_user_location
    geofence_events,
    service_running,      \* between lifespan startup and shutdown
    last_proximity_event, \* per pair: type of the last event produced for it
    last_geofence_event,  \* per user and room: type of the last event produced,
                          \* and whether the room's geofence was removed since
    user_movement_history, \* user_id -> LocationPoints, oldest first
    movement_states,       \* user_id -> MovementState
    last_proximity_check,  \* user_id -> time
    utcnow,                \* datetime.utcnow(), in seconds
    cache_touched,         \* per key of proximity_cache: when it was last written
    measured,              \* the last distances computed from a pair of coordinates
    proximity_trail        \* who made the last update, and per pair whose update
                           \* produced the pair's last event

wsvars == <<active_connections, room_order, room_memberships, user_locations,
            db_memberships, db_messages, ws, task, frames, last_new_message,
            unbound, broadcast_log>>
locvars == <<proximity_cache, geofence_order, active_geofences, user_geofence_status,
             proximity_events, geofence_events, service_running,
             last_proximity_event, last_geofence_event,
             user_movement_history, movement_states, last_proximity_check,
             utcnow, cache_touched, measured, proximity_trail>>
vars == <<wsvars, db_locations, locvars>>

\* ----------------------------------------------------------------- helpers
Remove(f, k) == [x \in DOMAIN f \ {k} |-> f[x]]
Put(f, k, v) == [x \in DOMAIN f \cup {k} |-> IF x = k THEN v ELSE f[x]]
Abs(x) == IF x < 0 THEN -x ELSE x
Min(S) == CHOOSE x \in S : \A y \in S : x <= y
Max(S) == CHOOSE x \in S : \A y \in S : y <= x

RECURSIVE SortedSeq(_)
\* Iteration order of a Python set of small ints: ascending.
SortedSeq(S) == IF S = {} THEN <<>> ELSE <<Min(S)>> \o SortedSeq(S \ {Min(S)})

\* --------------------------------------------------- external store (rows)
\* Room rows: every room of Rooms exists and is active.
RoomMaxUsers == [r \in Rooms |-> IF r = 2 THEN 1 ELSE 2]
\* Room.latitude of every room, and Room.boundary_radius in mm: the default
\* (50.0 metres), and for room 2 a radius that a latitude of 40 lies exactly on
RoomLatitude == [r \in Rooms |-> 0]
RoomBoundaryRadius == 50000
boundary_radius == [r \in Rooms |-> IF r = 2 THEN 1112 * 40 ELSE RoomBoundaryRadius]
\* a Room row with this id exists and is_active
room_exists(r) == r \in Rooms
\* a User row with this id exists
user_exists_any(uid) == TRUE
user_exists(uid) == uid \in Users
\* Friend rows: every two users are friends with can_see_location.
Friends(u) == Users \ {u}

\* An active RoomMembership row; join_latitude is -1 for None.
Row(r, u, lat) == [room |-> r, user |-> u, join_latitude |-> lat]
ActiveRows(dbm, r) == {i \in DOMAIN dbm : dbm[i].room = r}
IsActiveMember(dbm, r, u) == \E i \in DOMAIN dbm : dbm[i].room = r /\ dbm[i].user = u
RowsOfUser(dbm, u) == SelectSeq(dbm, LAMBDA row : row.user = u)

\* _get_room_members: the users of the room's active membership rows.
get_room_members(dbm, r) == {dbm[i].user : i \in ActiveRows(dbm, r)}

\* ------------------------------------------------------------------ events
\* An outbound event: its type, the room and the user it is about, a number
\* (message id, error number, distance in metres) and a member list.  `was`
\* is history kept for friend_nearby: whether the stored locations of the two
\* users were within the threshold before the location_update it answers.
NoEv == [type |-> "none", room |-> 0, user |-> 0, n |-> 0, members |-> {},
         was |-> FALSE]
Ev(t, r, u, n, m) == [type |-> t, room |-> r, user |-> u, n |-> n, members |-> m,
                      was |-> FALSE]
\* error events, by message
ErrCapacity == Ev("error", 0, 0, 1, {})     \* "Room is at maximum capacity"
ErrNotMember == Ev("error", 0, 0, 2, {})    \* "Not a member of this room"
ErrRoomIdRequired == Ev("error", 0, 0, 3, {})   \* "Room ID required"
ErrRoomNotFound == Ev("error", 0, 0, 4, {})     \* "Room not found"
ErrOutside == Ev("error", 0, 0, 5, {})          \* "Outside room boundaries"
ErrContentRequired == Ev("error", 0, 0, 6, {})  \* "Room ID and message content required"
ErrSendFailed == Ev("error", 0, 0, 7, {})       \* "Failed to send message"
ErrUnknownType == Ev("error", 0, 0, 8, {})      \* "Unknown message type: .."
ErrInvalidJSON == Ev("error", 0, 0, 9, {})      \* "Invalid JSON format"
ErrAuthRequired == Ev("error", 0, 0, 10, {})    \* "Authentication required"
ErrUserIdRequired == Ev("error", 0, 0, 11, {})  \* "User ID required"
ErrInvalidUser == Ev("error", 0, 0, 12, {})     \* "Invalid user"

\* A send_text call in flight: `to` is the session written to, `user` the user
\* id _send_to_user was called with, `ok` whether the call returns (TRUE) or
\* raises (FALSE); kind is "user" for _send_to_user, "ws" for a send_text of
\* the endpoint on its own socket.  prev_failed names the member whose send
\* raised just before this one in the same _broadcast_to_room loop (0: none).
NoPending == [to |-> 0, user |-> 0, ev |-> NoEv, ok |-> TRUE, kind |-> "none",
              prev_failed |-> 0]
NoFail == [user |-> 0, ev |-> NoEv]

\* Agenda entries: the calls a coroutine still has to make, in order.  A
\* handler's entry carries what it reads of its frame: the latitude of the
\* location, whether a location and a message content are there, and whether
\* the store commits what the handler writes (db_ok).
Op(o, u, r, e) == [op |-> o, user |-> u, room |-> r, ev |-> e, lat |-> 0,
                   location |-> FALSE, content |-> TRUE, db_ok |-> TRUE]
OpLoc(o, u, f, lat, was) ==
    [op |-> o, user |-> u, room |-> 0, lat |-> lat,
     location |-> TRUE, content |-> TRUE, db_ok |-> TRUE,
     ev |-> [type |-> "friend_nearby", room |-> 0, user |-> f, n |-> 0,
             members |-> {}, was |-> was]]

\* The manager's dictionaries and the store, threaded through one step.
Mem == [ac |-> active_connections, ro |-> room_order, rm |-> room_memberships,
        ul |-> user_locations, dbm |-> db_memberships, dbmsg |-> db_messages,
        dbloc |-> db_locations, unb |-> unbound]

\* ---------------------------------------------------------------- GeoMath
\* a variant without the squares of the sines: the signed distance
calculate_distance_signed(lat1, lat2) == 1112 * (lat2 - lat1)
\* calculate_distance_between_points: haversine with R = 6371 km, on one
\* meridian: 6371000 m * pi/180 * 1e-5 = 1.112 m per unit; result in mm.
calculate_distance_between_points(lat1, lat2) == 1112 * Abs(lat2 - lat1)
\* self.proximity_threshold = 0.1 km, in mm
ProximityThresholdKm == 100000

\* is_location_within_room_boundary: haversine km against radius / 1000
is_location_within_room_boundary_any(lat, r) == TRUE
\* a variant that takes a point on the radius as outside
is_location_within_room_boundary_strict(lat, r) ==
    calculate_distance_between_points(lat, RoomLatitude[r]) < boundary_radius[r]
is_location_within_room_boundary(lat, r) ==
    calculate_distance_between_points(lat, RoomLatitude[r]) <= boundary_radius[r]

\* ------------------------------------------------- WebSocketManager pieces
is_user_online(u) == u \in DOMAIN active_connections

\* a variant of the loop of get_user_rooms that returns at its first hit
RECURSIVE get_user_rooms_first(_, _, _)
get_user_rooms_first(order, rm, u) ==
    IF order = <<>> THEN <<>>
    ELSE IF u \in rm[Head(order)] THEN <<Head(order)>>
         ELSE get_user_rooms_first(Tail(order), rm, u)
\* get_user_rooms, lines 624-628: the rooms, in dict order, that hold the user
RECURSIVE get_user_rooms_iter(_, _, _)
get_user_rooms_iter(order, rm, u) ==
    IF order = <<>> THEN <<>>
    ELSE (IF u \in rm[Head(order)] THEN <<Head(order)>> ELSE <<>>)
         \o get_user_rooms_iter(Tail(order), rm, u)
get_user_rooms(u) == get_user_rooms_iter(room_order, room_memberships, u)

\* _join_room, lines 360-363
join_room_mem(M, u, r) ==
    [M EXCEPT !.rm = Put(M.rm, r, (IF r \in DOMAIN M.rm THEN M.rm[r] ELSE {}) \cup {u}),
              !.ro = IF r \in DOMAIN M.rm THEN M.ro ELSE Append(M.ro, r)]

\* a variant that keeps the key of an emptied room
leave_room_mem_keep(M, u, r) ==
    IF r \notin DOMAIN M.rm THEN M
    ELSE [M EXCEPT !.rm = [M.rm EXCEPT ![r] = @ \ {u}]]
\* _leave_room, lines 410-416
leave_room_mem(M, u, r) ==
    IF r \notin DOMAIN M.rm THEN M
    ELSE IF M.rm[r] \ {u} = {}
         THEN [M EXCEPT !.rm = Remove(M.rm, r),
                        !.ro = SelectSeq(M.ro, LAMBDA x : x # r)]
         ELSE [M EXCEPT !.rm = [M.rm EXCEPT ![r] = @ \ {u}]]

\* _leave_room, lines 419-432: the first active row of (room, user) is closed
leave_room_db(M, u, r) ==
    LET hits == {i \in DOMAIN M.dbm : M.dbm[i].room = r /\ M.dbm[i].user = u}
    IN  IF hits = {} THEN M
        ELSE [M EXCEPT !.dbm = [i \in 1..(Len(M.dbm) - 1) |->
                                   IF i < Min(hits) THEN M.dbm[i] ELSE M.dbm[i + 1]]]

\* disconnect, lines 62-63
disconnect_unbind(M, u) ==
    IF u \in DOMAIN M.ac
    THEN [M EXCEPT !.ac = Remove(M.ac, u), !.unb = @ \cup {M.ac[u]}]
    ELSE M

\* _send_to_user, lines 589-593: the except branch
send_to_user_except(M, u) ==
    IF u \in DOMAIN M.ac THEN [M EXCEPT !.ac = Remove(M.ac, u)] ELSE M

\* a variant in which the exception reaches the handler of _broadcast_to_room
\* (line 579) and ends its loop
after_send_error_raised(ag, p) ==
    LET same(i) == ag[i].op = "bsend" /\ ag[i].ev = p.ev
        m == Cardinality({i \in DOMAIN ag : \A j \in 1..i : same(j)})
    IN  SubSeq(ag, m + 1, Len(ag))
\* _send_to_user, lines 584-590: the exception is caught inside _send_to_user,
\* so its caller goes on with what it had left to do
after_send_error(ag, p) == ag

\* a variant that ignores exclude_user
broadcast_sends_all(members, exclude, ev) ==
    LET seq == SortedSeq(members)
    IN  [i \in 1..Len(seq) |-> Op("bsend", seq[i], ev.room, ev)]
\* _broadcast_to_room, lines 571-577: one _send_to_user per member of the copy
broadcast_sends(members, exclude, ev) ==
    LET seq == SortedSeq(members \ {exclude})
    IN  [i \in 1..Len(seq) |-> Op("bsend", seq[i], ev.room, ev)]

\* broadcast_to_all, line 599: the iterator of active_connections.items().
\* Connections are made in the order of the user ids and a user connects
\* once, so the dictionary's order is that of the ids: `user` is the key
\* the iterator is at (0 before the first) and `lat` the size of the
\* dictionary when the iterator was made.
AllNext(last, used, message) == [Op("all_next", last, 0, message) EXCEPT !.lat = used]
\* broadcast_to_all, lines 597-599
broadcast_to_all(M, message) == <<AllNext(0, Cardinality(DOMAIN M.ac), message)>>
\* broadcast_to_all, lines 602-604: the except branch of a send
broadcast_except(ag, p) == ag \o <<Op("disconnect", p.user, 0, NoEv)>>

\* disconnect_all, lines 92-94: one disconnect per key of the copy; the
\* dictionary's order is that of the ids, as for AllNext
disconnect_all(M) ==
    LET user_ids == SortedSeq(DOMAIN M.ac)
    IN  [i \in 1..Len(user_ids) |-> Op("disconnect", user_ids[i], 0, NoEv)]

\* disconnect, lines 62-66: the connection is dropped, the keys are copied
disconnect_agenda(M, u) ==
    [i \in 1..Len(M.ro) |-> Op("disc_room", u, M.ro[i], NoEv)]
    \o <<Op("disc_end", u, 0, NoEv)>>

\* disconnect, line 87: an exception skips the rest of disconnect
RECURSIVE skip_disconnect(_)
skip_disconnect(ag) ==
    IF ag = <<>> THEN <<>>
    ELSE IF Head(ag).op = "disc_end" THEN Tail(ag)
    ELSE skip_disconnect(Tail(ag))

\* connect, line 37
connect_bind(M, u, self) == [M EXCEPT !.ac = Put(M.ac, u, self)]

\* _send_initial_data, lines 131-139: one _rejoin_room per active membership
initial_data_agenda(M, u) ==
    LET rows == RowsOfUser(M.dbm, u)
    IN  [i \in 1..Len(rows) |-> Op("join", u, rows[i].room, NoEv)]

\* _handle_join_room, lines 175-218: admission against the store
join_at_capacity(M, r) == Cardinality(ActiveRows(M.dbm, r)) >= RoomMaxUsers[r]
join_persist(M, o) ==
    IF IsActiveMember(M.dbm, o.room, o.user) THEN M
    ELSE [M EXCEPT !.dbm = Append(M.dbm, Row(o.room, o.user,
                                             IF o.location THEN o.lat ELSE -1))]

\* _handle_join_room, lines 153-197: the error a join_room is answered with,
\* NoEv if it is admitted
join_error(M, o) ==
    IF o.room = 0 THEN ErrRoomIdRequired
    ELSE IF ~room_exists(o.room) THEN ErrRoomNotFound
    ELSE IF join_at_capacity(M, o.room) THEN ErrCapacity
    ELSE IF o.location /\ ~is_location_within_room_boundary(o.lat, o.room)
         THEN ErrOutside
    ELSE NoEv

\* _leave_room, lines 429-432: the commit that closes the row raises
leave_commit_fails(M, o) == ~o.db_ok /\ IsActiveMember(M.dbm, o.room, o.user)

\* a variant without the membership test
is_room_member_any(M, u, r) == TRUE
\* _handle_send_message, line 263
is_room_member(M, u, r) == r \in DOMAIN M.rm /\ u \in M.rm[r]
\* _handle_send_message, lines 255-268: the error a send_message is answered
\* with before anything is written, NoEv if there is none
send_error(M, o) ==
    IF o.room = 0 \/ ~o.content THEN ErrContentRequired
    ELSE IF ~is_room_member(M, o.user, o.room) THEN ErrNotMember
    ELSE NoEv

\* a variant that answers every user of the registry
handle_ping_all(M, user_id) ==
    [i \in 1..Len(SortedSeq(DOMAIN M.ac)) |->
        Op("send", SortedSeq(DOMAIN M.ac)[i], 0, Ev("pong", 0, 0, 0, {}))]
\* _handle_ping, lines 352-355: one pong (the timestamp is left out)
handle_ping(M, user_id) == <<Op("send", user_id, 0, Ev("pong", 0, 0, 0, {}))>>

\* _check_proximity, line 462: `if not user_lat or not user_lng: return`
proximity_skipped(lat) == lat = 0
\* a variant that compares the distance with the threshold taken as metres
friend_is_near_metres(M, f, lat) ==
    /\ f \in DOMAIN M.dbloc
    /\ calculate_distance_between_points(lat, M.dbloc[f]) <= 1000 * ProximityThresholdKm
\* _check_proximity, lines 480-489
friend_is_near(M, f, lat) ==
    /\ f \in DOMAIN M.dbloc
    /\ calculate_distance_between_points(lat, M.dbloc[f]) <= ProximityThresholdKm

\* _send_proximity_notification, line 508: round(distance * 1000), in metres
notified_distance(M, f, lat) ==
    (calculate_distance_between_points(lat, M.dbloc[f]) + 500) \div 1000
\* the stored locations of u and f are within the threshold
pair_was_near(M, u, f) ==
    /\ u \in DOMAIN M.dbloc
    /\ f \in DOMAIN M.dbloc
    /\ calculate_distance_between_points(M.dbloc[u], M.dbloc[f]) <= ProximityThresholdKm

\* websocket.send_text on the session `to`
SendTo(to, u, ev, kind, pf) ==
    [to |-> to, user |-> u, ev |-> ev, ok |-> ws[to] = "open", kind |-> kind,
     prev_failed |-> pf]

\* a send to a socket that is being accepted in this step
OpenSend(p, self) == IF p.to = self THEN [p EXCEPT !.ok = TRUE] ELSE p
Yield(M, ag, p) == [M |-> M, agenda |-> ag, pending |-> p]

\* Run the coroutine `self` from its agenda up to its next send_text call.
\* pf is the failed send the coroutine resumed from (NoFail if none).
RECURSIVE Run(_, _, _, _)
Run(M, ag, self, pf) ==
    IF ag = <<>> THEN Yield(M, <<>>, NoPending)
    ELSE
    LET o == Head(ag)
        rest == Tail(ag)
    IN
    CASE o.op = "send" ->      \* _send_to_user, lines 585-587
            IF o.user \in DOMAIN M.ac
            THEN Yield(M, rest, SendTo(M.ac[o.user], o.user, o.ev, "user", 0))
            ELSE Run(M, rest, self, pf)
      [] o.op = "bsend" ->     \* _send_to_user called by _broadcast_to_room
            IF o.user \in DOMAIN M.ac
            THEN Yield(M, rest, SendTo(M.ac[o.user], o.user, o.ev, "user",
                                       IF pf.ev = o.ev THEN pf.user ELSE 0))
            ELSE Run(M, rest, self, pf)
      [] o.op = "wsend" ->     \* main.py: websocket.send_text on the own socket
            Yield(M, rest, SendTo(self, o.user, o.ev, "ws", 0))
      [] o.op = "bcast" ->     \* _broadcast_to_room, lines 568-577
            IF o.room \notin DOMAIN M.rm THEN Run(M, rest, self, pf)
            ELSE Run(M, broadcast_sends(M.rm[o.room], o.user, o.ev) \o rest, self, pf)
      [] o.op = "bcast_users" ->  \* _broadcast_room_users, lines 552-560
            Run(M, <<Op("bcast", 0, o.room,
                        Ev("room_users_update", o.room, 0, 0,
                           get_room_members(M.dbm, o.room)))>> \o rest, self, pf)
      [] o.op = "join" ->      \* _join_room, lines 360-398
            LET M1 == join_room_mem(M, o.user, o.room)
            IN  Run(M1, <<Op("send", o.user, o.room,
                             Ev("room_joined", o.room, o.user, Len(M1.dbmsg),
                                get_room_members(M1.dbm, o.room))),
                          Op("bcast", o.user, o.room,
                             Ev("user_joined", o.room, o.user, 0, {})),
                          Op("bcast_users", 0, o.room, NoEv)>> \o rest, self, pf)
      [] o.op = "leave" ->     \* _leave_room, lines 410-448
            IF leave_commit_fails(M, o)
            THEN Run(leave_room_mem(M, o.user, o.room), rest, self, pf) \* line 453
            ELSE
            Run(leave_room_db(leave_room_mem(M, o.user, o.room), o.user, o.room),
                <<Op("bcast", o.user, o.room,
                     Ev("user_left", o.room, o.user, 0, {})),
                  Op("bcast_users", 0, o.room, NoEv)>> \o rest, self, pf)
      [] o.op = "h_leave" ->   \* _handle_leave_room, lines 235-244
            IF o.room = 0
            THEN Run(M, <<Op("send", o.user, 0, ErrRoomIdRequired)>> \o rest, self, pf)
            ELSE Run(M, <<[o EXCEPT !.op = "leave"]>> \o rest, self, pf)
      [] o.op = "disconnect" -> \* disconnect, lines 62-66
            Run(disconnect_unbind(M, o.user),
                disconnect_agenda(M, o.user) \o rest, self, pf)
      [] o.op = "disc_room" -> \* disconnect, lines 67-68
            IF o.room \notin DOMAIN M.rm
            THEN Run(M, skip_disconnect(rest), self, pf)   \* KeyError, line 87
            ELSE IF o.user \in M.rm[o.room]
                 THEN Run(M, <<Op("leave", o.user, o.room, NoEv)>> \o rest, self, pf)
                 ELSE Run(M, rest, self, pf)
      [] o.op = "disc_end" ->  \* disconnect, lines 71-72
            Run([M EXCEPT !.ul = Remove(M.ul, o.user)], rest, self, pf)
      [] o.op = "connect" ->   \* connect, lines 37-53, then main.py line 206
            LET M1 == connect_bind(M, o.user, self)
            IN  Run(M1, initial_data_agenda(M1, o.user)
                        \o <<Op("wsend", o.user, 0, Ev("connected", 0, 0, 0, {}))>>
                        \o rest, self, pf)
      [] o.op = "h_join" ->    \* _handle_join_room, lines 150-220
            IF join_error(M, o) # NoEv
            THEN Run(M, <<Op("send", o.user, o.room,
                             join_error(M, o))>> \o rest, self, pf)
            ELSE Run(join_persist(M, o),
                     <<Op("join", o.user, o.room, NoEv)>> \o rest, self, pf)
      [] o.op = "h_send" ->    \* _handle_send_message, lines 252-306
            IF send_error(M, o) # NoEv
            THEN Run(M, <<Op("send", o.user, o.room,
                             send_error(M, o))>> \o rest, self, pf)
            ELSE IF ~o.db_ok     \* the commit of line 281 raises: lines 301-306
            THEN Run(M, <<Op("send", o.user, o.room, ErrSendFailed)>> \o rest,
                     self, pf)
            ELSE LET M1 == [M EXCEPT !.dbmsg = Append(M.dbmsg, o.room)]
                 IN  Run(M1, <<Op("bcast", 0, o.room,
                                  Ev("new_message", o.room, o.user,
                                     Len(M1.dbmsg), {}))>> \o rest, self, pf)
      [] o.op = "h_loc" ->     \* _handle_location_update, lines 311-348
            LET M1 == [M EXCEPT !.ul = Put(M.ul, o.user, o.lat),
                                !.dbloc = Put(M.dbloc, o.user, o.lat)]
                fs == SortedSeq(Friends(o.user))
            IN  IF ~o.location THEN Run(M, rest, self, pf)     \* line 314
                ELSE IF ~o.db_ok  \* the commit of line 339 raises: line 348
                THEN Run([M EXCEPT !.ul = Put(M.ul, o.user, o.lat)], rest, self, pf)
                ELSE IF proximity_skipped(o.lat) THEN Run(M1, rest, self, pf)
                ELSE Run(M1, [i \in 1..Len(fs) |->
                                 OpLoc("prox", o.user, fs[i], o.lat,
                                       pair_was_near(M, o.user, fs[i]))]
                             \o rest, self, pf)
      [] o.op = "prox" ->      \* _check_proximity, lines 477-490
            IF friend_is_near(M, o.ev.user, o.lat)
            THEN Run(M, <<Op("send", o.user, 0,
                             [o.ev EXCEPT !.n = notified_distance(M, o.ev.user, o.lat)])>>
                        \o rest, self, pf)
            ELSE Run(M, rest, self, pf)
      [] o.op = "h_ping" ->    \* _handle_ping
            Run(M, handle_ping(M, o.user) \o rest, self, pf)
      [] o.op = "all_next" ->  \* broadcast_to_all, lines 599-601
            LET later == {u \in DOMAIN M.ac : u > o.user}
            IN  IF Cardinality(DOMAIN M.ac) # o.lat
                THEN \* RuntimeError: dictionary changed size during iteration
                     Yield(M, <<Op("raised", 0, 0, NoEv)>>, NoPending)
                ELSE IF later = {} THEN Run(M, rest, self, pf)
                ELSE Yield(M, <<AllNext(Min(later), o.lat, o.ev)>> \o rest,
                           SendTo(M.ac[Min(later)], Min(later), o.ev, "all", 0))
      [] o.op = "raised" ->    \* the exception left the coroutine
            Yield(M, ag, NoPending)
      [] OTHER -> Run(M, rest, self, pf)


\* The same for a session accepted in this step: its own socket is open.
RunOpen(M, ag, self) ==
    LET R == Run(M, ag, self, NoFail)
    IN  [R EXCEPT !.pending = OpenSend(R.pending, self)]

\* ----------------------------------------------------------------- frames
\* An inbound frame: its type ("malformed": the text is not JSON), roomId
\* (0: none), whether it has a location and a message content, the latitude
\* of the location, and whether the store commits what its handler writes.
Frame(t, r, lat) == [type |-> t, room |-> r, lat |-> lat,
                     location |-> t = "location_update", content |-> TRUE,
                     db_ok |-> TRUE]
Frames ==
    {Frame(t, r, 0) : t \in {"join_room", "leave_room", "send_message"},
                      r \in FrameRooms}
    \cup {Frame("location_update", 0, lat) : lat \in Lats}

\* the handler's entry for a frame, with what the handler reads of it
FrameOp(o, u, f) ==
    [Op(o, u, f.room, NoEv) EXCEPT !.lat = f.lat, !.location = f.location,
                                   !.content = f.content, !.db_ok = f.db_ok]
\* a variant of the dispatch that drops what it does not know
handler_op_dropping(u, f) ==
    CASE f.type = "join_room" -> FrameOp("h_join", u, f)
      [] f.type = "leave_room" -> FrameOp("h_leave", u, f)
      [] f.type = "send_message" -> FrameOp("h_send", u, f)
      [] f.type = "location_update" -> FrameOp("h_loc", u, f)
      [] f.type = "ping" -> Op("h_ping", u, 0, NoEv)
      [] OTHER -> Op("drop", u, 0, NoEv)
\* handle_message, lines 99-116, and main.py, lines 215-221
handler_op(u, f) ==
    CASE f.type = "join_room" -> FrameOp("h_join", u, f)
      [] f.type = "leave_room" -> FrameOp("h_leave", u, f)
      [] f.type = "send_message" -> FrameOp("h_send", u, f)
      [] f.type = "location_update" -> FrameOp("h_loc", u, f)
      [] f.type = "ping" -> Op("h_ping", u, 0, NoEv)
      \* main.py, lines 217-221: json.loads raised
      [] f.type = "malformed" -> Op("wsend", u, 0, ErrInvalidJSON)
      \* handle_message, lines 111-116
      [] OTHER -> Op("send", u, 0, ErrUnknownType)

\* ------------------------------------------------------------------ state
\* The session's authenticate frame names this user.
UserOf(s) == ((s - 1) % NUsers) + 1

\* The store outlives the process: at start it may hold active membership
\* rows of an earlier run (what _send_initial_data rejoins), within capacity.
RECURSIVE RowSeq(_)
RowSeq(S) ==
    IF S = {} THEN <<>>
    ELSE LET m == CHOOSE x \in S : \A y \in S :
                      x[1] < y[1] \/ (x[1] = y[1] /\ x[2] <= y[2])
         IN  <<Row(m[1], m[2], -1)>> \o RowSeq(S \ {m})
InitialMemberships ==
    {<<>>,
     RowSeq({<<1, u>> : u \in {v \in Users : v <= RoomMaxUsers[1]}} \cup {<<2, 1>>})}

NoTask == [pc |-> "init", user |-> 0, agenda |-> <<>>, pending |-> NoPending]

\* no distance computed yet
NoMeasure == [a |-> 0, b |-> 0, km |-> <<>>, meters |-> <<>>]

\* LocationService.__init__, lines 57-83
InitLocationService ==
    /\ proximity_cache = <<>>
    /\ geofence_order = <<>>
    /\ active_geofences = <<>>
    /\ user_geofence_status = <<>>
    /\ proximity_events = <<>>
    /\ geofence_events = <<>>
    /\ service_running = TRUE
    /\ last_proximity_event = [k \in Pairs |-> "none"]
    /\ last_geofence_event =
          [u \in Users |-> [r \in Rooms |-> [type |-> "none", removed |-> FALSE]]]
    /\ user_movement_history = <<>>
    /\ movement_states = <<>>
    /\ last_proximity_check = <<>>
    /\ utcnow = 0
    /\ cache_touched = <<>>
    /\ measured = NoMeasure
    /\ proximity_trail = [by |-> [k \in Pairs |-> 0], updater |-> 0]

\* WebSocketManager.__init__, lines 20-31
InitManager ==
    /\ active_connections = <<>>
    /\ room_order = <<>>
    /\ room_memberships = <<>>
    /\ user_locations = <<>>
    /\ db_messages = <<>>
    /\ db_locations = <<>>
    /\ ws = [s \in Sessions |-> "none"]
    /\ task = [s \in Sessions |-> NoTask]
    /\ frames = 0
    /\ last_new_message = [s \in Sessions |-> [r \in Rooms |-> 0]]
    /\ unbound = {}
    /\ broadcast_log = <<>>

Init ==
    /\ InitManager
    /\ InitLocationService
    /\ db_memberships \in InitialMemberships

\* The manager's dictionaries and the store after a coroutine ran to its
\* next suspension with result R.
CommitManager(R) ==
    /\ active_connections' = R.M.ac
    /\ room_order' = R.M.ro
    /\ room_memberships' = R.M.rm
    /\ user_locations' = R.M.ul
    /\ db_memberships' = R.M.dbm
    /\ db_messages' = R.M.dbmsg
    /\ db_locations' = R.M.dbloc
    /\ unbound' = R.M.unb
    /\ last_new_message' =
          IF R.pending.ok /\ R.pending.ev.type = "new_message"
          THEN [last_new_message EXCEPT ![R.pending.to][R.pending.ev.room] = R.pending.ev.n]
          ELSE last_new_message
    /\ UNCHANGED locvars
\* The state after coroutine s ran to its next suspension with result R;
\* pc is the part of the endpoint it runs ("run": connect or a handler,
\* "fin": the finally block).
Commit(s, R, pc, u) ==
    /\ CommitManager(R)
    /\ UNCHANGED broadcast_log
    /\ task' = [task EXCEPT ![s].user = u,
                            ![s].agenda = R.agenda,
                            ![s].pending = R.pending,
                            ![s].pc = IF R.pending.kind # "none" THEN pc
                                      ELSE IF pc = "fin" THEN "closed" ELSE "idle"]
    \* the endpoint returned: the server closes the socket
    /\ ws' = IF R.pending.kind = "none" /\ pc = "fin"
             THEN [ws EXCEPT ![s] = "closed"]
             ELSE IF ws[s] = "none" THEN [ws EXCEPT ![s] = "open"] ELSE ws

\* main.py lines 203-209: the endpoint of session s connects user_id
Connect(s, user_id) ==
    /\ task[s].pc = "init"
    /\ \A t \in Sessions : (t < s /\ UserOf(t) = UserOf(s)) => task[t].pc # "init"
    /\ UNCHANGED frames
    /\ LET R == RunOpen(Mem, <<Op("connect", user_id, 0, NoEv)>>, s)
       IN  Commit(s, R, "run", user_id)

\* main.py lines 163-203: a client connects, the endpoint accepts it and its
\* first frame is authenticate with a known user id
Authenticate(s) == Connect(s, UserOf(s))

\* A first frame: its type ("malformed": the text is not JSON) and userId
\* (0: none).
AuthFrame(t, uid) == [type |-> t, userId |-> uid]
AuthFrames(s) ==
    {AuthFrame(t, uid) : t \in {"authenticate", "join_room"},
                         uid \in {0, UserOf(s), NUsers + 1}}
    \cup {AuthFrame("malformed", 0)}

\* main.py lines 171-198: the error event the first frame is answered with,
\* NoEv if it passes
auth_error(f) ==
    IF f.type # "authenticate" THEN ErrAuthRequired
    ELSE IF f.userId = 0 THEN ErrUserIdRequired
    ELSE IF ~user_exists(f.userId) THEN ErrInvalidUser
    ELSE NoEv
\* main.py lines 164, 179: user_id as the finally block sees it
auth_user_id(f) == IF f.type = "authenticate" THEN f.userId ELSE 0
\* main.py lines 169-198 and 231-235: what the endpoint does with a first
\* frame that does not pass (json.loads raises on a malformed one)
reject_agenda(f) ==
    (IF f.type = "malformed" THEN <<>> ELSE <<Op("wsend", 0, 0, auth_error(f))>>)
    \o (IF auth_user_id(f) # 0
        THEN <<Op("disconnect", auth_user_id(f), 0, NoEv)>> ELSE <<>>)

\* main.py lines 163-209: the endpoint accepts session s and reads its first
\* frame f
FirstFrame(s, f) ==
    IF f.type # "malformed" /\ auth_error(f) = NoEv
    THEN Connect(s, f.userId)
    ELSE /\ task[s].pc = "init"
         /\ UNCHANGED frames
         /\ Commit(s, RunOpen(Mem, reject_agenda(f), s), "fin", auth_user_id(f))

\* main.py lines 214-216: the next frame of an authenticated session
Receive(s, f) ==
    /\ task[s].pc = "idle"
    /\ ws[s] = "open"
    /\ frames < MaxFrames
    /\ frames' = frames + 1
    /\ Commit(s, Run(Mem, <<handler_op(task[s].user, f)>>, s, NoFail), "run", task[s].user)

\* a suspended send_text returns or raises and the coroutine runs on
Resume(s) ==
    /\ task[s].pc \in {"run", "fin"}
    /\ task[s].pending.kind # "none"
    /\ UNCHANGED frames
    /\ LET p == task[s].pending
           ag == task[s].agenda
       IN  IF p.ok
           THEN Commit(s, Run(Mem, ag, s, NoFail), task[s].pc, task[s].user)
           ELSE IF p.kind = "user"
           THEN \* _send_to_user caught the exception
                Commit(s, Run(send_to_user_except(Mem, p.user),
                              after_send_error(ag, p), s,
                              [user |-> p.user, ev |-> p.ev]), task[s].pc, task[s].user)
           ELSE \* main.py lines 231-235: the exception ends the endpoint
                Commit(s, Run(Mem, <<Op("disconnect", task[s].user, 0, NoEv)>>,
                              s, NoFail), "fin", task[s].user)

\* main.py lines 229-235: receive_text raises WebSocketDisconnect
Disconnected(s) ==
    /\ task[s].pc = "idle"
    /\ ws[s] = "dead"
    /\ UNCHANGED frames
    /\ Commit(s, Run(Mem, <<Op("disconnect", task[s].user, 0, NoEv)>>, s, NoFail),
              "fin", task[s].user)

\* the peer of session s goes away: its transport fails from now on
PeerDrop(s) ==
    /\ ws[s] = "open"
    /\ task[s].pc \in {"run", "idle"}
    /\ ws' = [ws EXCEPT ![s] = "dead"]
    /\ UNCHANGED <<active_connections, room_order, room_memberships, user_locations,
                   db_memberships, db_messages, db_locations, task, frames,
                   last_new_message, unbound, broadcast_log, locvars>>

\* One session per user, up to MaxFrames frames.
Next ==
    \/ \E s \in 1..NUsers : Authenticate(s)
    \/ \E s \in 1..NUsers, f \in Frames : Receive(s, f)
    \/ \E s \in 1..NUsers : Resume(s)
    \/ \E s \in 1..NUsers : Disconnected(s)
    \/ \E s \in 1..NUsers : PeerDrop(s)

Spec == Init /\ [][Next]_vars

\* Users may connect again while an older session of theirs is still there.
ReceiveOne(s, f) == frames < MaxFramesReconnect /\ Receive(s, f)

NextReconnect ==
    \/ \E s \in Sessions : Authenticate(s)
    \/ \E s \in Sessions, f \in Frames : ReceiveOne(s, f)
    \/ \E s \in Sessions : Resume(s)
    \/ \E s \in Sessions : Disconnected(s)
    \/ \E s \in Sessions : PeerDrop(s)

SpecReconnect == Init /\ [][NextReconnect]_vars

\* One session per user, with a store that holds active memberships of an
\* earlier run in three rooms.
InitThreeRooms ==
    /\ InitManager
    /\ InitLocationService
    /\ db_memberships = RowSeq({<<1, 1>>, <<1, 2>>, <<2, 2>>, <<3, 1>>, <<3, 2>>})

SpecThreeRooms == InitThreeRooms /\ [][Next]_vars

\* A call of broadcast_to_all next to sessions that open and close: one
\* session per user, opened in the order of the user ids, no frames; the
\* caller's coroutine takes the place of the last session.
Broadcaster == MaxSessions
EvAll == Ev("announcement", 0, 0, 0, {})

\* main.py lines 163-209, for the users in the order of their ids
AuthenticateInOrder(s) ==
    /\ \A t \in 1..(s - 1) : task[t].pc # "init"
    /\ Authenticate(s)

\* the coroutine that called broadcast_to_all ran to its next suspension
\* with result R: it is in the call, or the call returned or raised
CommitBroadcast(R) ==
    /\ CommitManager(R)
    /\ task' = [task EXCEPT ![Broadcaster].agenda = R.agenda,
                            ![Broadcaster].pending = R.pending,
                            ![Broadcaster].pc =
                                IF R.pending.kind # "none" THEN "call"
                                ELSE IF R.agenda # <<>> THEN "raised"
                                ELSE "returned"]
    /\ UNCHANGED <<ws, frames>>

\* broadcast_to_all, lines 595-601: the call, up to its first send
BroadcastToAll ==
    /\ task[Broadcaster].pc = "init"
    /\ broadcast_log' = [t \in {active_connections[u] : u \in DOMAIN active_connections}
                            |-> "registered"]
    /\ CommitBroadcast(Run(Mem, broadcast_to_all(Mem, EvAll), Broadcaster, NoFail))

\* what the send p of broadcast_to_all came to
logged(log, p) ==
    IF p.kind # "all" THEN log
    ELSE Put(log, p.to, IF ~p.ok THEN "failed"
                        ELSE IF p.to \in DOMAIN log /\ log[p.to] \in {"sent", "twice"}
                        THEN "twice" ELSE "sent")

\* broadcast_to_all, lines 599-608: a suspended send_text returns or raises
\* and the call runs on
ResumeBroadcast ==
    /\ task[Broadcaster].pc = "call"
    /\ LET p == task[Broadcaster].pending
           ag == task[Broadcaster].agenda
       IN  /\ broadcast_log' = logged(broadcast_log, p)
           /\ IF p.ok
              THEN CommitBroadcast(Run(Mem, ag, Broadcaster, NoFail))
              ELSE IF p.kind = "user"
              THEN CommitBroadcast(Run(send_to_user_except(Mem, p.user),
                                       after_send_error(ag, p), Broadcaster,
                                       [user |-> p.user, ev |-> p.ev]))
              ELSE CommitBroadcast(Run(Mem, broadcast_except(ag, p), Broadcaster, NoFail))

NextBroadcast ==
    \/ \E s \in 1..NUsers : AuthenticateInOrder(s)
    \/ \E s \in 1..NUsers : Resume(s)
    \/ \E s \in 1..NUsers : Disconnected(s)
    \/ \E s \in 1..NUsers : PeerDrop(s)
    \/ BroadcastToAll
    \/ ResumeBroadcast

SpecBroadcast == InitThreeRooms /\ [][NextBroadcast]_vars

\* Shutdown next to sessions that open and close: the lifespan coroutine
\* takes the place of the last session.  No connect runs once disconnect_all
\* is called, and none is under way when it is called.
ShutdownStarted == task[Broadcaster].pc # "init"
ConnectUnderWay == \E s \in 1..NUsers : task[s].pc = "run"

\* main.py line 134: the call of disconnect_all, up to its first send
DisconnectAll ==
    /\ ~ShutdownStarted
    /\ ~ConnectUnderWay
    /\ UNCHANGED broadcast_log
    /\ CommitBroadcast(Run(Mem, disconnect_all(Mem), Broadcaster, NoFail))

NextShutdown ==
    \/ \E s \in 1..NUsers : ~ShutdownStarted /\ AuthenticateInOrder(s)
    \/ \E s \in 1..NUsers : Resume(s)
    \/ \E s \in 1..NUsers : Disconnected(s)
    \/ \E s \in 1..NUsers : PeerDrop(s)
    \/ DisconnectAll
    \/ ResumeBroadcast

SpecShutdown == InitThreeRooms /\ [][NextShutdown]_vars

\* The whole protocol: first frames that pass or not, frames with missing
\* fields, unknown and malformed ones, and store commits that raise.
FrameWith(t, r, lat, location, content, db_ok) ==
    [type |-> t, room |-> r, lat |-> lat, location |-> location,
     content |-> content, db_ok |-> db_ok]
ProtocolFrames ==
    {Frame(t, r, 0) : t \in {"join_room", "leave_room", "send_message"},
                      r \in FrameRooms}
    \cup {FrameWith("join_room", 1, lat, TRUE, TRUE, TRUE) : lat \in {40, 200}}
    \* a location exactly on the boundary radius of room 2
    \cup {FrameWith("join_room", 2, 40, TRUE, TRUE, TRUE)}
    \cup {Frame("location_update", 0, 40), Frame("ping", 0, 0), Frame("typing", 0, 0),
          Frame("malformed", 0, 0)}
    \* missing fields, and a roomId without an active Room row
    \cup {Frame(t, 0, 0) : t \in {"join_room", "leave_room", "send_message"}}
    \cup {Frame("join_room", NRooms + 1, 0),
          FrameWith("send_message", 1, 0, FALSE, FALSE, TRUE),
          FrameWith("location_update", 0, 0, FALSE, TRUE, TRUE)}
    \* the store does not commit
    \cup {FrameWith("send_message", 1, 0, FALSE, TRUE, FALSE),
          FrameWith("leave_room", 1, 0, FALSE, TRUE, FALSE),
          FrameWith("location_update", 0, 40, TRUE, TRUE, FALSE)}

ReceiveProtocol(s, f) == frames < MaxFramesProtocol /\ Receive(s, f)

NextProtocol ==
    \/ \E s \in 1..NUsers : \E f \in AuthFrames(s) : FirstFrame(s, f)
    \/ \E s \in 1..NUsers, f \in ProtocolFrames : ReceiveProtocol(s, f)
    \/ \E s \in 1..NUsers : Resume(s)
    \/ \E s \in 1..NUsers : Disconnected(s)
    \/ \E s \in 1..NUsers : PeerDrop(s)

SpecProtocol == Init /\ [][NextProtocol]_vars



\* -------------------------------------------------------- LocationService
\* Latitudes passed to update_user_location and geofence data passed to
\* create_geofence, in 1e-5 degrees and mm.
LocLats == {0, 35, 60, 150}
Centers == {0}
GeofenceRooms == 1..NGeofences
Radii == {38710, 100000}

\* _calculate_distance: geodesic metres; on a meridian near the equator
\* 1.106 m per 1e-5 degree; result in mm.
calculate_distance(lat1, lat2) == 1106 * Abs(lat2 - lat1)
\* self.proximity_threshold = 100.0 metres, in mm
proximity_threshold == 100000

\* a variant that keys the cache by (user, friend) as given
cache_key_directed(user_id, friend_id) == <<user_id, friend_id>>
\* _check_user_proximity, line 479
cache_key(user_id, friend_id) ==
    <<IF user_id < friend_id THEN user_id ELSE friend_id,
      IF user_id < friend_id THEN friend_id ELSE user_id>>
\* a variant that takes a pair without a cache entry as nearby
was_nearby_unseen(cache, key) == key \notin DOMAIN cache \/ cache[key] <= proximity_threshold
\* _check_user_proximity, lines 480-483
was_nearby(cache, key) == key \in DOMAIN cache /\ cache[key] <= proximity_threshold
is_nearby(distance) == distance <= proximity_threshold

\* _check_user_proximity, lines 471-508: the loop over the friends' location rows
RECURSIVE check_user_proximity(_, _, _, _, _)
check_user_proximity(cache, friend_ids, user_id, lat, locs) ==
    IF friend_ids = <<>> THEN [cache |-> cache, events |-> <<>>]
    ELSE LET friend_id == Head(friend_ids)
             distance == calculate_distance(lat, locs[friend_id])
             key == cache_key(user_id, friend_id)
             ev == IF was_nearby(cache, key) # is_nearby(distance)
                   THEN <<[user1 |-> user_id, user2 |-> friend_id,
                           type |-> IF is_nearby(distance) THEN "entered" ELSE "exited",
                           distance |-> distance]>>
                   ELSE <<>>
             R == check_user_proximity(Put(cache, key, distance), Tail(friend_ids),
                                       user_id, lat, locs)
         IN  [cache |-> R.cache, events |-> ev \o R.events]

\* a variant that takes the boundary itself as outside
is_inside_strict(distance, geofence) == distance < geofence.radius_meters
\* _check_geofences, line 531
is_inside(distance, geofence) == distance <= geofence.radius_meters
\* _check_geofences, line 533
was_inside(status, key) == IF key \in DOMAIN status THEN status[key] ELSE FALSE

\* _check_geofences, lines 522-552: the loop over active_geofences.items()
RECURSIVE check_geofences(_, _, _, _, _)
check_geofences(status, order, fences, user_id, lat) ==
    IF order = <<>> THEN [status |-> status, events |-> <<>>]
    ELSE LET room_id == Head(order)
             geofence == fences[room_id]
             distance == calculate_distance(lat, geofence.center_lat)
             key == <<user_id, room_id>>
             inside == is_inside(distance, geofence)
             ev == IF was_inside(status, key) # inside
                   THEN <<[user |-> user_id, room |-> room_id,
                           type |-> IF inside THEN "entered" ELSE "exited",
                           distance |-> distance]>>
                   ELSE <<>>
             R == check_geofences(Put(status, key, inside), Tail(order), fences,
                                  user_id, lat)
         IN  [status |-> R.status, events |-> ev \o R.events]

\* the type of the last of the events of seq at the indices hits, else old
LastType(seq, hits, old) == IF hits = {} THEN old ELSE seq[Max(hits)].type

\* update_user_location, lines 159-188: the store, the proximity check and
\* the geofence check.  None of the awaits of update_user_location suspends,
\* so one call is one step.
update_location_checks(user_id, lat) ==
    /\ service_running
    /\ LET locs == Put(db_locations, user_id, lat)     \* _update_location_in_db
           friend_ids == SortedSeq({f \in Friends(user_id) : f \in DOMAIN locs})
           P == check_user_proximity(proximity_cache, friend_ids, user_id, lat, locs)
           G == check_geofences(user_geofence_status, geofence_order,
                                active_geofences, user_id, lat)
       IN  /\ db_locations' = locs
           /\ proximity_cache' = P.cache
           /\ proximity_events' = P.events
           /\ user_geofence_status' = G.status
           /\ geofence_events' = G.events
           /\ last_proximity_event' =
                 [k \in Pairs |->
                     LastType(P.events,
                              {i \in DOMAIN P.events :
                                  k = <<Min({P.events[i].user1, P.events[i].user2}),
                                        Max({P.events[i].user1, P.events[i].user2})>>},
                              last_proximity_event[k])]
           /\ last_geofence_event' =
                 [u \in Users |-> [r \in Rooms |->
                     IF u = user_id /\ \E i \in DOMAIN G.events : G.events[i].room = r
                     THEN [type |-> LastType(G.events,
                                             {i \in DOMAIN G.events : G.events[i].room = r},
                                             "none"),
                           removed |-> FALSE]
                     ELSE last_geofence_event[u][r]]]
           /\ cache_touched' =
                 [k \in DOMAIN P.cache |->
                     IF \E i \in DOMAIN friend_ids : k = cache_key(user_id, friend_ids[i])
                     THEN utcnow ELSE cache_touched[k]]
           /\ proximity_trail' =
                 [by |-> [k \in Pairs |->
                             IF \E i \in DOMAIN P.events :
                                   {P.events[i].user1, P.events[i].user2} = {k[1], k[2]}
                             THEN user_id ELSE proximity_trail.by[k]],
                  updater |-> user_id]
    /\ UNCHANGED <<wsvars, measured, geofence_order, active_geofences,
                   service_running,
                   last_proximity_check, utcnow>>

\* update_user_location, lines 129-188, without the movement history of lines
\* 152-157, which reads and writes nothing but user_movement_history and
\* movement_states (update_user_location_tracked has the call with it)
update_user_location(user_id, lat) ==
    /\ update_location_checks(user_id, lat)
    /\ UNCHANGED <<user_movement_history, movement_states>>

\* A LocationPoint: latitude and timestamp.
LocationPoint(lat, t) == [latitude |-> lat, timestamp |-> t]

\* _update_movement_history, lines 360-368: the last 100 points are kept
update_movement_history(history, user_id, location) ==
    LET old == IF user_id \in DOMAIN history THEN history[user_id] ELSE <<>>
        new == Append(old, location)
    IN  Put(history, user_id,
            IF Len(new) > 100 THEN SubSeq(new, Len(new) - 99, Len(new)) ELSE new)

\* _detect_movement_state, lines 387-396: the sums over consecutive points,
\* in mm and in seconds
RECURSIVE total_distance(_)
total_distance(points) ==
    IF Len(points) < 2 THEN 0
    ELSE calculate_distance(points[1].latitude, points[2].latitude)
         + total_distance(Tail(points))
RECURSIVE total_time(_)
total_time(points) ==
    IF Len(points) < 2 THEN 0
    ELSE (points[2].timestamp - points[1].timestamp) + total_time(Tail(points))

\* _detect_movement_state, lines 373-408.  avg_speed_kmh = distance / time
\* * 3.6 with metres and seconds is 9 * mm / (2500 * s).
detect_movement_state(history, user_id) ==
    LET h == IF user_id \in DOMAIN history THEN history[user_id] ELSE <<>>
        recent_points == IF Len(h) > 5 THEN SubSeq(h, Len(h) - 4, Len(h)) ELSE h
        d == total_distance(recent_points)
        t == total_time(recent_points)
    IN  IF Len(h) < 2 THEN "unknown"
        ELSE IF t <= 0 THEN "stationary"
        ELSE IF 9 * d < 2500 * t THEN "stationary"
        ELSE IF 9 * d < 20000 * t THEN "walking"
        ELSE "driving"

\* update_user_location, lines 129-188, the whole call
update_user_location_tracked(user_id, lat) ==
    /\ update_location_checks(user_id, lat)
    /\ user_movement_history' =
          update_movement_history(user_movement_history, user_id,
                                  LocationPoint(lat, utcnow))
    /\ movement_states' =
          Put(movement_states, user_id,
              detect_movement_state(user_movement_history', user_id))

\* time passes: datetime.utcnow() (line 146) returns d seconds more
Tick(d) ==
    /\ utcnow' = utcnow + d
    /\ UNCHANGED <<wsvars, measured, proximity_trail,
                   db_locations, proximity_cache, geofence_order,
                   active_geofences, user_geofence_status, proximity_events,
                   geofence_events, service_running, last_proximity_event,
                   last_geofence_event, user_movement_history, movement_states,
                   last_proximity_check, cache_touched>>

\* _proximity_monitoring_loop, lines 611-613: the users whose last check is
\* more than 300 seconds back
users_to_remove(t) ==
    {u \in DOMAIN last_proximity_check : t - last_proximity_check[u] > 300}
\* _proximity_monitoring_loop, lines 604-625: one turn of the loop, which
\* sleeps 30 seconds and then sweeps
proximity_monitoring_loop ==
    /\ service_running
    /\ utcnow' = utcnow + 30
    /\ LET gone == users_to_remove(utcnow')
           keep == {k \in DOMAIN proximity_cache : k[1] \notin gone /\ k[2] \notin gone}
       IN  /\ last_proximity_check' =
                 [u \in DOMAIN last_proximity_check \ gone |-> last_proximity_check[u]]
           /\ proximity_cache' = [k \in keep |-> proximity_cache[k]]
           /\ cache_touched' = [k \in keep |-> cache_touched[k]]
    /\ UNCHANGED <<wsvars, measured, proximity_trail,
                   db_locations, geofence_order, active_geofences,
                   user_geofence_status, proximity_events, geofence_events,
                   service_running, last_proximity_event, last_geofence_event,
                   user_movement_history, movement_states>>

\* create_geofence, lines 254-279
create_geofence(room_id, center_lat, radius_meters) ==
    /\ service_running
    /\ active_geofences' = Put(active_geofences, room_id,
                               [center_lat |-> center_lat,
                                radius_meters |-> radius_meters])
    /\ geofence_order' = IF room_id \in DOMAIN active_geofences THEN geofence_order
                         ELSE Append(geofence_order, room_id)
    /\ UNCHANGED <<wsvars, measured, proximity_trail,
                   db_locations, proximity_cache, user_geofence_status,
                   proximity_events, geofence_events, service_running,
                   last_proximity_event, last_geofence_event,
                   user_movement_history, movement_states, last_proximity_check,
                   utcnow, cache_touched>>

\* a variant that deletes the geofence and leaves the statuses
remove_geofence_only(room_id) ==
    /\ service_running
    /\ room_id \in DOMAIN active_geofences
    /\ active_geofences' = Remove(active_geofences, room_id)
    /\ geofence_order' = SelectSeq(geofence_order, LAMBDA x : x # room_id)
    /\ last_geofence_event' =
          [u \in Users |-> [r \in Rooms |->
              IF r = room_id THEN [last_geofence_event[u][r] EXCEPT !.removed = TRUE]
              ELSE last_geofence_event[u][r]]]
    /\ UNCHANGED <<wsvars, measured, proximity_trail, user_geofence_status,
                   db_locations, proximity_cache, proximity_events,
                   geofence_events, service_running, last_proximity_event,
                   user_movement_history, movement_states, last_proximity_check,
                   utcnow, cache_touched>>
\* remove_geofence, lines 281-295
remove_geofence(room_id) ==
    /\ service_running
    /\ room_id \in DOMAIN active_geofences
    /\ active_geofences' = Remove(active_geofences, room_id)
    /\ geofence_order' = SelectSeq(geofence_order, LAMBDA x : x # room_id)
    /\ user_geofence_status' =
          [k \in {x \in DOMAIN user_geofence_status : x[2] # room_id}
              |-> user_geofence_status[k]]
    /\ last_geofence_event' =
          [u \in Users |-> [r \in Rooms |->
              IF r = room_id THEN [last_geofence_event[u][r] EXCEPT !.removed = TRUE]
              ELSE last_geofence_event[u][r]]]
    /\ UNCHANGED <<wsvars, measured, proximity_trail,
                   db_locations, proximity_cache, proximity_events,
                   geofence_events, service_running, last_proximity_event,
                   user_movement_history, movement_states, last_proximity_check,
                   utcnow, cache_touched>>

\* cleanup, lines 98-127, called by the lifespan shutdown (main.py line 136)
cleanup ==
    /\ service_running
    /\ service_running' = FALSE
    /\ proximity_cache' = <<>>
    /\ active_geofences' = <<>>
    /\ geofence_order' = <<>>
    /\ user_geofence_status' = <<>>
    /\ last_proximity_check' = <<>>
    /\ user_movement_history' = <<>>
    /\ movement_states' = <<>>
    /\ cache_touched' = <<>>
    /\ UNCHANGED <<wsvars, measured, proximity_trail,
                   db_locations, proximity_events, geofence_events,
                   last_proximity_event, last_geofence_event, utcnow>>

InitLoc ==
    /\ InitManager
    /\ InitLocationService
    /\ db_memberships = <<>>

NextLoc ==
    \/ \E u \in Users, lat \in LocLats : update_user_location(u, lat)
    \/ \E r \in GeofenceRooms, c \in Centers, rad \in Radii : create_geofence(r, c, rad)
    \/ \E r \in GeofenceRooms : remove_geofence(r)
    \/ cleanup

SpecLoc == InitLoc /\ [][NextLoc]_vars

\* The movement of one user: up to MaxSamples updates, at most MaxNow seconds
\* apart in all; a latitude unit in a second is 3.98 km/h.
MaxSamples == 6
MaxNow == 2
TrackedUsers == {1}
MoveLats == {0, 1, 3}
SamplesOf(u) ==
    IF u \in DOMAIN user_movement_history THEN Len(user_movement_history[u]) ELSE 0

NextMovement ==
    \/ \E u \in TrackedUsers, lat \in MoveLats :
          SamplesOf(u) < MaxSamples /\ update_user_location_tracked(u, lat)
    \/ utcnow < MaxNow /\ Tick(1)

SpecMovement == InitLoc /\ [][NextMovement]_vars

\* LocationService with geofences for up to NGeofenceRooms rooms.
NGeofenceRooms == 2
StatusRooms == 1..NGeofenceRooms
\* at the centre of a geofence, and outside its radius
StatusLats == {0, 60}
StatusRadii == {38710}

NextGeofence ==
    \/ \E u \in Users, lat \in StatusLats : update_user_location(u, lat)
    \/ \E r \in StatusRooms, c \in Centers, rad \in StatusRadii :
          create_geofence(r, c, rad)
    \/ \E r \in StatusRooms : remove_geofence(r)
    \/ cleanup

SpecGeofence == InitLoc /\ [][NextGeofence]_vars

\* The two distance functions on their own: latitudes a and b of one
\* meridian, up to MaxDistLat units north or south of the equator, are
\* given to both, in both orders and each with itself.
MaxDistLat == 7
DistLats == (0 - MaxDistLat)..MaxDistLat

Measure(a, b) ==
    /\ measured' = [a |-> a, b |-> b,
                    km |-> <<calculate_distance_between_points(a, b),
                             calculate_distance_between_points(b, a),
                             calculate_distance_between_points(a, a),
                             calculate_distance_between_points(b, b)>>,
                    meters |-> <<calculate_distance(a, b), calculate_distance(b, a),
                                 calculate_distance(a, a), calculate_distance(b, b)>>]
    /\ UNCHANGED <<wsvars, db_locations, proximity_cache, geofence_order,
                   active_geofences, user_geofence_status, proximity_events,
                   geofence_events, service_running, last_proximity_event,
                   last_geofence_event, user_movement_history, movement_states,
                   last_proximity_check, utcnow, cache_touched, proximity_trail>>

NextDistance == \E a \in DistLats, b \in DistLats : Measure(a, b)

SpecDistance == InitLoc /\ [][NextDistance]_vars

\* Location updates and the proximity sweep, for MaxNowSweep seconds.
MaxNowSweep == 360
SweepLats == {0, 35}

NextSweep ==
    \/ \E u \in Users, lat \in SweepLats : update_user_location(u, lat)
    \/ utcnow < MaxNowSweep /\ proximity_monitoring_loop
    \/ cleanup

SpecSweep == InitLoc /\ [][NextSweep]_vars

\* Sessions that open and close next to location updates of their users:
\* one session per user, no frames, up to MaxSamplesTracker updates a user.
MaxSamplesTracker == 2

NextTracker ==
    \/ \E s \in 1..NUsers : Authenticate(s)
    \/ \E s \in 1..NUsers : Resume(s)
    \/ \E s \in 1..NUsers : Disconnected(s)
    \/ \E s \in 1..NUsers : PeerDrop(s)
    \/ \E u \in Users, lat \in SweepLats :
          SamplesOf(u) < MaxSamplesTracker /\ update_user_location_tracked(u, lat)
    \/ \E r \in GeofenceRooms, c \in Centers, rad \in Radii : create_geofence(r, c, rad)

SpecTracker == InitLoc /\ [][NextTracker]_vars

\* ------------------------------------------------------------------ claims
InRoom(u, r) == r \in DOMAIN room_memberships /\ u \in room_memberships[r]
Listed(seq, x) == \E i \in DOMAIN seq : seq[i] = x

\* C1: in every reachable state, for all rooms r and users u, u is in the
\* occupant set room_memberships[r] if and only if r is one of the rooms
\* get_user_rooms(u) returns.
C1_BidirectionalIndex ==
    \A r \in Rooms, u \in Users : InRoom(u, r) <=> Listed(get_user_rooms(u), r)
\* a user sits in two rooms that were created in the order 2, 1
C1_Witness ==
    /\ room_order = <<2, 1>>
    /\ \E u \in Users : InRoom(u, 1) /\ InRoom(u, 2) /\ get_user_rooms(u) = <<2, 1>>

\* C2: once a later session s2 of a user has connected while an earlier session
\* s1 of that user was bound, the user is online, sends to the user go to s2,
\* and s1 is closed.
C2_AtMostOneSession ==
    \A s1, s2 \in Sessions :
        (/\ s1 < s2
         /\ task[s1].user # 0
         /\ task[s1].user = task[s2].user
         /\ task[s2].pc = "idle"
         /\ ws[s2] = "open")
        => /\ ws[s1] # "open"
           /\ is_user_online(task[s2].user)
           /\ active_connections[task[s2].user] = s2

\* C3: the number of occupants of a room never exceeds the room's capacity.
C3_CapacityEnforced ==
    \A r \in DOMAIN room_memberships :
        Cardinality(room_memberships[r]) <= RoomMaxUsers[r]

\* C4: when the endpoint of a user's session has finished disconnect(u), u is
\* in no room's occupant set, has no stored location and is not online.
C4_DisconnectCleanup ==
    \A s \in 1..NUsers :
        task[s].pc = "closed"
        => /\ \A r \in Rooms : ~InRoom(task[s].user, r)
           /\ task[s].user \notin DOMAIN user_locations
           /\ ~is_user_online(task[s].user)

BroadcastTypes == {"user_joined", "user_left", "room_users_update", "new_message"}
\* the coroutine of session s resumes from a _send_to_user that raised
ResumesFromError(s) ==
    /\ task[s].pending.kind = "user"
    /\ ~task[s].pending.ok
    /\ task'[s] # task[s]

\* C5: when a send of a _broadcast_to_room loop raises, the failed member is
\* offline afterwards, the loop goes on: the next member of the snapshot that
\* is bound is sent the same message; the failed send is not repeated, and the
\* caller is not ended by the error.
C5_FanOutIsolation ==
    [][\A s \in Sessions :
        (ResumesFromError(s) /\ task[s].pending.ev.type \in BroadcastTypes) =>
        LET p == task[s].pending
            ag == task[s].agenda
            same(i) == ag[i].op = "bsend" /\ ag[i].ev = p.ev
            m == Cardinality({i \in DOMAIN ag : \A j \in 1..i : same(j)})
            K == {i \in 1..m : ag[i].user \in DOMAIN active_connections \ {p.user}}
            q == task'[s].pending
        IN  /\ p.user \notin DOMAIN active_connections'
            /\ task'[s].pc \in {task[s].pc, "idle", "closed"}
            /\ ~(q.ev = p.ev /\ q.user = p.user)
            /\ \A i \in DOMAIN task'[s].agenda :
                   ~(task'[s].agenda[i].ev = p.ev /\ task'[s].agenda[i].user = p.user)
            /\ IF K # {}
               THEN /\ q.kind = "user"
                    /\ q.user = ag[Min(K)].user
                    /\ q.to = active_connections[q.user]
                    /\ q.ev = p.ev
                    /\ task'[s].agenda = SubSeq(ag, Min(K) + 1, Len(ag))
               ELSE q.ev # p.ev
    ]_vars
\* a member is sent a new_message right after the send to another member of
\* the same broadcast raised
C5_Witness ==
    \E s \in Sessions :
        /\ task[s].pending.prev_failed # 0
        /\ task[s].pending.ok
        /\ task[s].pending.ev.type = "new_message"
        /\ task[s].pending.user # task[s].pending.prev_failed

\* C6: after a send to user u raised, u is unbound and is in no room's
\* occupant set and has no stored location.
C6_TransportErrorIsDisconnect ==
    [][\A s \in Sessions :
        ResumesFromError(s) =>
        LET u == task[s].pending.user
        IN  /\ u \notin DOMAIN active_connections'
            /\ \A r \in DOMAIN room_memberships' : u \notin room_memberships'[r]
            /\ u \notin DOMAIN user_locations'
    ]_vars

NearFriends(u, lat) ==
    {f \in Friends(u) :
        /\ f \in DOMAIN db_locations
        /\ calculate_distance_between_points(lat, db_locations[f]) <= ProximityThresholdKm}
StoredWithin(u, f) ==
    /\ u \in DOMAIN db_locations
    /\ f \in DOMAIN db_locations
    /\ 1106 * Abs(db_locations[u] - db_locations[f]) <= proximity_threshold

\* C7: an update_user_location of u produces, for a friend f with a stored
\* location, exactly one 'entered' when the pair was not within 100 m and now
\* is, exactly one 'exited' when it was within and now is not, and no event
\* otherwise; the events of a pair alternate, starting with 'entered'.
C7_EdgeTriggeredProximity ==
    [][\A u \in Users, lat \in LocLats :
        update_user_location(u, lat) =>
        \A f \in Friends(u) :
            LET evs == {i \in DOMAIN proximity_events' : proximity_events'[i].user2 = f}
                key == <<Min({u, f}), Min({u, f} \ {Min({u, f})})>>
                was == StoredWithin(u, f)
                now == 1106 * Abs(lat - db_locations[f]) <= proximity_threshold
                last == last_proximity_event[key]
            IN  IF f \in DOMAIN db_locations /\ was # now
                THEN /\ Cardinality(evs) = 1
                     /\ \A i \in evs :
                           LET e == proximity_events'[i]
                           IN  /\ e.user1 = u
                               /\ e.type = (IF now THEN "entered" ELSE "exited")
                               /\ e.type # last
                               /\ last = "none" => e.type = "entered"
                ELSE evs = {}
    ]_vars
\* after 'entered', an update kept the pair within the threshold and produced
\* no event
C7_Witness ==
    /\ proximity_events = <<>>
    /\ last_proximity_event[<<1, 2>>] = "entered"
    /\ StoredWithin(1, 2)
    /\ db_locations[1] # db_locations[2]

\* what an update_user_location of u at lat has to report for room r:
\* 'entered' exactly when u was recorded outside (or not recorded) and is now
\* at distance <= radius, 'exited' exactly when recorded inside and now
\* farther, nothing otherwise
GeofenceEdge(u, lat, r) ==
    LET evs == {i \in DOMAIN geofence_events' : geofence_events'[i].room = r}
        key == <<u, r>>
        was == key \in DOMAIN user_geofence_status /\ user_geofence_status[key]
        now == 1106 * Abs(lat - active_geofences[r].center_lat)
                   <= active_geofences[r].radius_meters
    IN  IF r \in DOMAIN active_geofences
        THEN /\ user_geofence_status'[key] = now
             /\ IF was # now
                THEN /\ Cardinality(evs) = 1
                     /\ \A i \in evs :
                           /\ geofence_events'[i].user = u
                           /\ geofence_events'[i].type =
                                 (IF now THEN "entered" ELSE "exited")
                ELSE evs = {}
        ELSE evs = {}

\* C9 as stated: the edge rule, and the events of a (user, room) strictly
\* alternate, starting with 'entered'.
C9_StrictAlternation ==
    [][\A u \in Users, lat \in LocLats :
        update_user_location(u, lat) =>
        \A r \in Rooms :
            /\ GeofenceEdge(u, lat, r)
            /\ \A i \in DOMAIN geofence_events' :
                  geofence_events'[i].room = r =>
                  /\ geofence_events'[i].type # last_geofence_event[u][r].type
                  /\ last_geofence_event[u][r].type = "none"
                        => geofence_events'[i].type = "entered"
    ]_vars

\* C9: the edge rule, and the events of a (user, room) alternate, starting
\* with 'entered', for as long as the room's geofence is not removed; the
\* first event after a remove_geofence of the room is 'entered' again.
C9_AlternationPerGeofence ==
    [][\A u \in Users, lat \in LocLats :
        update_user_location(u, lat) =>
        \A r \in Rooms :
            /\ GeofenceEdge(u, lat, r)
            /\ \A i \in DOMAIN geofence_events' :
                  geofence_events'[i].room = r =>
                  LET last == last_geofence_event[u][r]
                  IN  IF last.removed \/ last.type = "none"
                      THEN geofence_events'[i].type = "entered"
                      ELSE geofence_events'[i].type # last.type
    ]_vars
\* a user standing exactly on the boundary has entered, after an earlier
\* 'entered' and a removal of the geofence
C9_Witness ==
    \E i \in DOMAIN geofence_events :
        LET e == geofence_events[i]
        IN  /\ e.type = "entered"
            /\ e.room \in DOMAIN active_geofences
            /\ e.distance = active_geofences[e.room].radius_meters
            /\ \E v \in Users : /\ v # e.user
                                /\ last_geofence_event[v][e.room].removed
                                /\ last_geofence_event[v][e.room].type = "entered"

\* C10: the new_message ids a session receives for a room never go down (ids
\* are given in the order the messages are persisted).
C10_SingleRoomFIFO ==
    [][\A s \in Sessions, r \in Rooms :
        last_new_message'[s][r] >= last_new_message[s][r]]_vars


\* the step sends session t an event of the given type
Sends(t, type) ==
    /\ task'[t].pending # task[t].pending
    /\ task'[t].pending.kind = "user"
    /\ task'[t].pending.ev.type = type

\* C11: when a room_users_update of room r that lists user u is sent to
\* another occupant, no handler still has the user_joined broadcast of u's
\* join of r ahead of it: user_joined is sent no later than the first member
\* list that shows the new member.
C11_NotificationBeforeRefresh ==
    [][\A t \in Sessions :
        (Sends(t, "room_users_update") /\ task'[t].pending.ok) =>
        LET q == task'[t].pending
        IN  \A s \in Sessions \ {t} : \A i \in DOMAIN task[s].agenda :
                LET o == task[s].agenda[i]
                IN  ~(/\ o.op = "bcast"
                      /\ o.ev.type = "user_joined"
                      /\ o.ev.room = q.ev.room
                      /\ o.ev.user \in q.ev.members
                      /\ o.ev.user # q.user
                      /\ InRoom(o.ev.user, o.ev.room))
    ]_vars


\* the manager's dictionaries and the rows of the store
Registry == <<active_connections, room_order, room_memberships, user_locations,
              db_memberships, db_messages, db_locations>>
IsError(p, s) == p.kind \in {"user", "ws"} /\ p.to = s /\ p.ev.type = "error"

\* C12: a session is bound, and its frames are dispatched, only after a first
\* frame of type authenticate with the id of an existing user; a first frame
\* of another type, without a user id or with an unknown user's id is answered
\* with an error event on the session, which is then closed, is never bound,
\* and changes nothing in the registry, the rooms or the store.
C12_AuthenticationGate ==
    [][/\ \A s \in Sessions : \A f \in AuthFrames(s) :
            FirstFrame(s, f) =>
            IF f.type = "authenticate" /\ f.userId \in Users
            THEN /\ f.userId \in DOMAIN active_connections'
                 /\ active_connections'[f.userId] = s
                 /\ task'[s].user = f.userId
            ELSE /\ UNCHANGED Registry
                 /\ task'[s].user \notin Users
                 /\ f.type # "malformed" =>
                       /\ IsError(task'[s].pending, s)
                       /\ task'[s].pending.ok
                       /\ task'[s].pending.ev = auth_error(f)
       /\ \A s \in Sessions :
            (task[s].pc # "init" /\ task[s].user \notin Users /\ task'[s] # task[s]) =>
            /\ UNCHANGED Registry
            /\ task'[s].pc = "closed"
            /\ ws'[s] = "closed"
       /\ \A s \in Sessions : \A f \in ProtocolFrames :
            Receive(s, f) => /\ task[s].user \in Users
                             /\ task[s].pending.ev.type # "error"
       /\ \A u \in DOMAIN active_connections' :
            /\ u \in Users
            /\ task'[active_connections'[u]].user = u
    ]_vars
\* a session that named an unknown user has been closed while another user
\* is bound and occupies a room
C12_Witness ==
    \E s, t \in Sessions :
        /\ task[s].pc = "closed"
        /\ task[s].user = NUsers + 1
        /\ ws[s] = "closed"
        /\ task[t].user \in DOMAIN active_connections
        /\ active_connections[task[t].user] = t
        /\ InRoom(task[t].user, 1)


KnownTypes == {"join_room", "leave_room", "send_message", "location_update", "ping"}
\* session s is the one its user is bound to
Bound(s) ==
    /\ task[s].user \in DOMAIN active_connections
    /\ active_connections[task[s].user] = s
\* the step sends exactly one event, ev, by way of kind, to session s itself
\* and leaves the registry, the rooms and the store as they are
OnlyReplies(s, ev, kind) ==
    /\ task'[s].pending.to = s
    /\ task'[s].pending.kind = kind
    /\ task'[s].pending.ok
    /\ task'[s].pending.ev = ev
    /\ task'[s].agenda = <<>>
    /\ \A t \in Sessions \ {s} : task'[t] = task[t]
    /\ UNCHANGED Registry

\* C13: a frame that is not JSON, or whose type is none of the five known
\* ones, from a session bound to its user is answered with exactly one error
\* event to the session it came from and nothing to any other session;
\* connections, rooms, locations and the store stay as they are, the session
\* stays open and bound, and goes on to its next frame once the error is sent.
C13_UnknownOrMalformed ==
    [][/\ \A s \in Sessions : \A f \in ProtocolFrames :
            (Receive(s, f) /\ f.type \notin KnownTypes /\ Bound(s)) =>
            /\ IF f.type = "malformed"
               THEN OnlyReplies(s, ErrInvalidJSON, "ws")
               ELSE OnlyReplies(s, ErrUnknownType, "user")
            /\ ws'[s] = "open"
            /\ task[s].user \in DOMAIN active_connections'
            /\ active_connections'[task[s].user] = s
       /\ \A s \in Sessions :
            (/\ task[s].pending.ev \in {ErrInvalidJSON, ErrUnknownType}
             /\ task[s].pending.ok
             /\ task'[s] # task[s]) =>
            /\ task'[s].pc = "idle"
            /\ task'[s].pending = NoPending
            /\ ws'[s] = ws[s]
            /\ UNCHANGED Registry
    ]_vars
\* a frame of unknown type from an occupant of a room with another occupant
\* who is bound is being answered
C13_Witness ==
    \E s, t \in Sessions :
        /\ s # t
        /\ task[s].pending.ev = ErrUnknownType
        /\ task[s].pending.to = s
        /\ task[t].user \in DOMAIN active_connections
        /\ InRoom(task[s].user, 1)
        /\ InRoom(task[t].user, 1)


\* the frame lacks a field its handler requires
MissingField(f) ==
    \/ f.type \in {"join_room", "leave_room", "send_message"} /\ f.room = 0
    \/ f.type = "send_message" /\ ~f.content
    \/ f.type = "location_update" /\ ~f.location

\* C14: a frame of a known type that lacks a required field (roomId of
\* join_room, leave_room and send_message, the content of send_message, the
\* location of location_update) is answered with one error event to the
\* session it came from, changes nothing, and leaves the session open.
C14_MissingFieldReported ==
    [][\A s \in Sessions : \A f \in ProtocolFrames :
            (Receive(s, f) /\ MissingField(f) /\ Bound(s)) =>
            /\ IsError(task'[s].pending, s)
            /\ task'[s].pending.ok
            /\ task'[s].agenda = <<>>
            /\ UNCHANGED Registry
            /\ ws'[s] = "open"
    ]_vars


\* why a join_room frame with a roomId is not admitted in the current state:
\* no active room, as many active membership rows as the room's capacity, or
\* a location farther from the room than its boundary radius; NoEv otherwise
Rejection(f) ==
    IF f.room \notin Rooms THEN ErrRoomNotFound
    ELSE IF Cardinality({i \in DOMAIN db_memberships : db_memberships[i].room = f.room})
              >= RoomMaxUsers[f.room]
    THEN ErrCapacity
    ELSE IF f.location /\ 1112 * Abs(f.lat - RoomLatitude[f.room]) > boundary_radius[f.room]
    THEN ErrOutside
    ELSE NoEv

\* C15: a join_room that is rejected because the room does not exist, is at
\* capacity, or the location is outside the boundary sends exactly one error
\* event, to the session it came from, nothing to any other session, and
\* leaves the occupant sets and the persisted memberships unchanged.
C15_AdmissionErrorsMutateNothing ==
    [][\A s \in Sessions : \A f \in ProtocolFrames :
            (/\ Receive(s, f)
             /\ f.type = "join_room"
             /\ f.room # 0
             /\ Bound(s)
             /\ Rejection(f) # NoEv) =>
            /\ OnlyReplies(s, Rejection(f), "user")
            /\ ws'[s] = "open"
    ]_vars
\* a join_room from outside the boundary of a room that has a bound occupant
\* and a free place is being answered
C15_Witness ==
    \E s \in Sessions :
        /\ task[s].pending.ev = ErrOutside
        /\ task[s].pending.ok
        /\ ~InRoom(task[s].user, 1)
        /\ \E u \in Users \ {task[s].user} : InRoom(u, 1) /\ is_user_online(u)
        /\ Cardinality(ActiveRows(db_memberships, 1)) < RoomMaxUsers[1]


\* C16: a leave_room for a room the user does not occupy is answered with an
\* error event to the session it came from; no occupant set changes, and no
\* user_left or room_users_update is sent to anyone.
C16_LeaveByNonMember ==
    [][\A s \in Sessions : \A f \in ProtocolFrames :
            (/\ Receive(s, f)
             /\ f.type = "leave_room"
             /\ f.room \in Rooms
             /\ ~InRoom(task[s].user, f.room)
             /\ Bound(s)) =>
            /\ IsError(task'[s].pending, s)
            /\ task'[s].agenda = <<>>
            /\ UNCHANGED <<room_memberships, room_order>>
    ]_vars


\* the users the entries of agenda ag send to
Recipients(ag) == {ag[i].user : i \in DOMAIN ag}

\* C17: a send_message for room r from an occupant of r is persisted and sent
\* as new_message to the occupants of r at that moment (the snapshot), the
\* sender included, in turn, each one that is bound when its turn comes; a
\* send_message from a user who does not occupy r persists nothing, sends no
\* new_message and answers the sender alone with the not-a-member error; a
\* new_message is never sent to a user outside the snapshot.
C17_SendMessageGate ==
    [][/\ \A s \in Sessions : \A f \in ProtocolFrames :
            (/\ Receive(s, f)
             /\ f.type = "send_message"
             /\ f.room # 0 /\ f.content /\ f.db_ok
             /\ Bound(s)) =>
            LET u == task[s].user
                q == task'[s].pending
            IN  IF InRoom(u, f.room)
                THEN LET snapshot == room_memberships[f.room]
                         first == Min(snapshot \cap DOMAIN active_connections)
                     IN  /\ db_messages' = Append(db_messages, f.room)
                         /\ q.ev = Ev("new_message", f.room, u, Len(db_messages'), {})
                         /\ q.kind = "user"
                         /\ q.user = first
                         /\ q.to = active_connections[first]
                         /\ Recipients(task'[s].agenda) = {v \in snapshot : v > first}
                         /\ \A i \in DOMAIN task'[s].agenda :
                               /\ task'[s].agenda[i].op = "bsend"
                               /\ task'[s].agenda[i].ev = q.ev
                ELSE OnlyReplies(s, ErrNotMember, "user")
       /\ \A s \in Sessions :
            (/\ task[s].pending.ev.type = "new_message"
             /\ task'[s] # task[s]) =>
            LET p == task[s].pending
                ag == task[s].agenda
                bound == IF p.ok THEN DOMAIN active_connections
                         ELSE DOMAIN active_connections \ {p.user}
                K == {i \in DOMAIN ag : ag[i].user \in bound}
                q == task'[s].pending
            IN  /\ \A i \in DOMAIN ag : ag[i].op = "bsend" /\ ag[i].ev = p.ev
                /\ IF K # {}
                   THEN /\ q.ev = p.ev
                        /\ q.kind = "user"
                        /\ q.user = ag[Min(K)].user
                        /\ q.to = active_connections[q.user]
                        /\ task'[s].agenda = SubSeq(ag, Min(K) + 1, Len(ag))
                   ELSE /\ q = NoPending
                        /\ task'[s].agenda = <<>>
    ]_vars
\* the sender is sent its own message after another occupant has received it
C17_Witness ==
    \E s \in Sessions :
        LET p == task[s].pending
        IN  /\ p.ev.type = "new_message"
            /\ p.ok
            /\ p.to = s
            /\ p.ev.user = task[s].user
            /\ \E t \in Sessions \ {s} : last_new_message[t][p.ev.room] = p.ev.n


\* what the handler of frame f from session s sends first when the store
\* commits its write
WhenCommitted(s, f) ==
    Run(Mem, <<handler_op(task[s].user, [f EXCEPT !.db_ok = TRUE])>>, s, NoFail).pending

\* C18: when the store does not commit the write of a send_message from an
\* occupant, of a leave_room or of a location_update, the handler still sends
\* the events it sends when the write is committed (new_message, user_left
\* and the member list, friend_nearby), and no error event.
C18_PersistenceFailureKeepsEvents ==
    [][\A s \in Sessions : \A f \in ProtocolFrames :
            (/\ Receive(s, f)
             /\ ~f.db_ok
             /\ Bound(s)
             /\ WhenCommitted(s, f).ev.type # "error") =>
            /\ task'[s].pending.ev.type = WhenCommitted(s, f).ev.type
            /\ task'[s].pending.to = WhenCommitted(s, f).to
    ]_vars


\* C19: a join_room for room r from a user who already occupies r changes
\* neither the occupant sets nor the persisted memberships and is not
\* answered with an error event, whatever the occupancy of r.
C19_JoinIdempotent ==
    [][\A s \in Sessions : \A f \in ProtocolFrames :
            (/\ Receive(s, f)
             /\ f.type = "join_room"
             /\ f.room \in Rooms
             /\ InRoom(task[s].user, f.room)
             /\ Bound(s)) =>
            /\ UNCHANGED <<room_memberships, room_order, db_memberships>>
            /\ task'[s].pending.ev.type # "error"
    ]_vars


Occupants(r) == IF r \in DOMAIN room_memberships THEN room_memberships[r] ELSE {}
UserJoined(u, r) == Ev("user_joined", r, u, 0, {})
\* what _join_room has left to do after its room_joined send
AfterRoomJoined(u, r) ==
    <<Op("bcast", u, r, UserJoined(u, r)), Op("bcast_users", 0, r, NoEv)>>
AfterUserJoined(r) == <<Op("bcast_users", 0, r, NoEv)>>
\* the step of session s sends ev to the first user of cand that is bound and
\* leaves one send of ev for each user of cand after that one, then rest;
\* FALSE if no user of cand is bound
SendsToFirstBound(s, ev, cand, rest) ==
    LET K == {i \in DOMAIN cand : cand[i] \in DOMAIN active_connections'}
        q == task'[s].pending
    IN  /\ K # {}
        /\ q.ev = ev
        /\ q.kind = "user"
        /\ q.user = cand[Min(K)]
        /\ q.to = active_connections'[q.user]
        /\ task'[s].agenda =
              [i \in 1..(Len(cand) - Min(K)) |->
                  Op("bsend", cand[Min(K) + i], ev.room, ev)] \o rest
NoneBound(cand) == \A i \in DOMAIN cand : cand[i] \notin DOMAIN active_connections'
\* the step of session s starts the member-list refresh of room r: every
\* occupant of r that is bound is sent room_users_update in turn
RefreshStarts(s, r) ==
    LET ev == Ev("room_users_update", r, 0, 0, get_room_members(db_memberships, r))
        cand == SortedSeq(Occupants(r))
    IN  \/ SendsToFirstBound(s, ev, cand, <<>>)
        \/ /\ NoneBound(cand)
           /\ task'[s].pending = NoPending
           /\ task'[s].agenda = <<>>
\* the users the sends at the head of agenda ag go to, up to AfterUserJoined
RECURSIVE SendsAhead(_)
SendsAhead(ag) ==
    IF ag = <<>> \/ Head(ag).op # "bsend" THEN <<>>
    ELSE <<Head(ag).user>> \o SendsAhead(Tail(ag))

\* C20: when a join_room of u for room r is admitted, u becomes an occupant of
\* r and is sent one room_joined; then every other occupant of r that is bound
\* is sent user_joined naming u, once each and u itself not; then every
\* occupant that is bound, u included, is sent a room_users_update.
C20_JoinOutputs ==
    [][/\ \A s \in Sessions : \A f \in ProtocolFrames :
            (/\ Receive(s, f)
             /\ f.type = "join_room"
             /\ f.room # 0
             /\ Rejection(f) = NoEv
             /\ ~InRoom(task[s].user, f.room)
             /\ Bound(s)) =>
            LET u == task[s].user
                q == task'[s].pending
            IN  /\ room_memberships' =
                      Put(room_memberships, f.room, Occupants(f.room) \cup {u})
                /\ \E i \in DOMAIN db_memberships' :
                      /\ db_memberships'[i].room = f.room
                      /\ db_memberships'[i].user = u
                /\ q.ev.type = "room_joined"
                /\ q.ev.room = f.room
                /\ q.to = s
                /\ q.ok
                /\ task'[s].agenda = AfterRoomJoined(u, f.room)
       /\ \A s \in Sessions, u \in Users, r \in Rooms :
            \* room_joined has been sent: the user_joined broadcast starts
            (task[s].agenda = AfterRoomJoined(u, r) /\ task'[s] # task[s]) =>
            LET others == SortedSeq(Occupants(r) \ {u})
            IN  \/ SendsToFirstBound(s, UserJoined(u, r), others, AfterUserJoined(r))
                \/ NoneBound(others) /\ RefreshStarts(s, r)
       /\ \A s \in Sessions, r \in Rooms :
            \* the user_joined broadcast goes on, or ends and the refresh starts
            (/\ task[s].pending.ev.type = "user_joined"
             /\ task[s].pending.ev.room = r
             /\ task[s].agenda = [i \in 1..(Len(task[s].agenda) - 1) |->
                                     Op("bsend", task[s].agenda[i].user, r,
                                        task[s].pending.ev)] \o AfterUserJoined(r)
             /\ task'[s] # task[s]) =>
            LET others == SendsAhead(task[s].agenda)
            IN  /\ task[s].pending.ev.user \notin
                      {task[s].pending.user} \cup {others[i] : i \in DOMAIN others}
                /\ \/ SendsToFirstBound(s, task[s].pending.ev, others, AfterUserJoined(r))
                   \/ NoneBound(others) /\ RefreshStarts(s, r)
       /\ \A s \in Sessions :
            \* the refresh goes on to the next occupant that is bound, or ends
            (/\ task[s].pending.ev.type = "room_users_update"
             /\ task[s].agenda = [i \in 1..Len(task[s].agenda) |->
                                     Op("bsend", task[s].agenda[i].user,
                                        task[s].pending.ev.room, task[s].pending.ev)]
             /\ task'[s] # task[s]) =>
            LET rest == SendsAhead(task[s].agenda)
            IN  \/ SendsToFirstBound(s, task[s].pending.ev, rest, <<>>)
                \/ /\ NoneBound(rest)
                   /\ task'[s].pending = NoPending
                   /\ task'[s].agenda = <<>>
    ]_vars
\* the user_joined of a join_room is being delivered to another occupant, with
\* the member-list refresh still to come
C20_Witness ==
    \E s \in Sessions :
        LET p == task[s].pending
        IN  /\ p.ev.type = "user_joined"
            /\ p.ok
            /\ p.ev.user = task[s].user
            /\ p.user # task[s].user
            /\ InRoom(p.user, p.ev.room)
            /\ InRoom(p.ev.user, p.ev.room)
            /\ task[s].agenda = AfterUserJoined(p.ev.room)
            /\ frames > 0


\* the step of session s carries out a join of room r: a join_room frame, or
\* a rejoin of connect
JoinsRoom(s, r) ==
    \/ \E f \in Frames : Receive(s, f) /\ f.type = "join_room" /\ f.room = r
    \/ Authenticate(s)
    \/ \E i \in DOMAIN task[s].agenda :
          task[s].agenda[i].op = "join" /\ task[s].agenda[i].room = r
\* the step of session s carries out a leave of room r: a leave_room frame,
\* or the disconnect of the session's user
LeavesRoom(s, r) ==
    \/ \E f \in Frames : Receive(s, f) /\ f.type = "leave_room" /\ f.room = r
    \/ task'[s].pc \in {"fin", "closed"} /\ task'[s] # task[s]

\* C24: no room id of the in-memory index maps to an empty occupant set; a
\* room key appears only with the join of its first occupant and disappears
\* only with the leave or disconnect of its last occupant.
C24_EmptyRoomsPruned ==
    /\ [](\A r \in DOMAIN room_memberships : room_memberships[r] # {})
    /\ [][/\ \A r \in Rooms :
              (r \notin DOMAIN room_memberships /\ r \in DOMAIN room_memberships') =>
              \E s \in Sessions :
                  /\ room_memberships'[r] = {task'[s].user}
                  /\ JoinsRoom(s, r)
          /\ \A r \in Rooms :
              (r \in DOMAIN room_memberships /\ r \notin DOMAIN room_memberships') =>
              \E s \in Sessions :
                  /\ room_memberships[r] = {task[s].user}
                  /\ LeavesRoom(s, r)
      ]_vars
\* room 1 has had an occupant, who sent a message there, and its key is gone
\* again, while room 2 is occupied
C24_Witness ==
    /\ 1 \notin DOMAIN room_memberships
    /\ 2 \in DOMAIN room_memberships
    /\ \E i \in DOMAIN db_messages : db_messages[i] = 1


\* C30: a ping from a session bound to its user is answered with exactly one
\* pong, to that session; nothing is sent to any other session, and the
\* connections, the occupant sets, the stored locations and the store stay
\* as they are, also when the pong has been sent.
C30_PingHasNoSideEffects ==
    [][/\ \A s \in Sessions : \A f \in ProtocolFrames :
            (Receive(s, f) /\ f.type = "ping" /\ Bound(s)) =>
            /\ OnlyReplies(s, Ev("pong", 0, 0, 0, {}), "user")
            /\ task'[s].pending.user = task[s].user
       /\ \A s \in Sessions :
            (/\ task[s].pending.ev.type = "pong"
             /\ task[s].pending.ok
             /\ task'[s] # task[s]) =>
            /\ task'[s].pc = "idle"
            /\ task'[s].pending = NoPending
            /\ \A t \in Sessions \ {s} : task'[t] = task[t]
            /\ UNCHANGED Registry
    ]_vars
\* a pong is being sent to a user who has a stored location and shares room 1
\* with another user who is bound
C30_Witness ==
    \E s, t \in Sessions :
        /\ s # t
        /\ task[s].pending.ev.type = "pong"
        /\ task[s].pending.to = s
        /\ task[s].user \in DOMAIN user_locations
        /\ Bound(t)
        /\ InRoom(task[s].user, 1)
        /\ InRoom(task[t].user, 1)


\* C23: a join_room for an existing room from a user who does not occupy it
\* is admitted only if it carries no location or its location is at most the
\* room's boundary radius away from the room's centre; when the room has a
\* free place that is also enough: a location exactly on the radius is
\* admitted, and a join_room without a location is never answered with the
\* outside-boundaries error.
C23_BoundaryAdmission ==
    [][\A s \in Sessions : \A f \in ProtocolFrames :
            (/\ Receive(s, f)
             /\ f.type = "join_room"
             /\ f.room \in Rooms
             /\ ~InRoom(task[s].user, f.room)
             /\ Bound(s)) =>
            LET u == task[s].user
                within == 1112 * Abs(f.lat - RoomLatitude[f.room])
                              <= boundary_radius[f.room]
                full == Cardinality(ActiveRows(db_memberships, f.room))
                            >= RoomMaxUsers[f.room]
                admitted == /\ f.room \in DOMAIN room_memberships'
                            /\ u \in room_memberships'[f.room]
                            /\ IsActiveMember(db_memberships', f.room, u)
                            /\ task'[s].pending.ev.type = "room_joined"
                            /\ task'[s].pending.to = s
            IN  /\ admitted => (~f.location \/ within)
                /\ (~full /\ (~f.location \/ within)) => admitted
                /\ task'[s].pending.ev = ErrOutside => (f.location /\ ~within)
                /\ (~full /\ f.location /\ ~within) => task'[s].pending.ev = ErrOutside
    ]_vars
\* a user is being told that it joined room 2, on a membership row whose
\* join_latitude is exactly the boundary radius of room 2 away from its centre
C23_Witness ==
    \E s \in Sessions :
        /\ task[s].pending.ev.type = "room_joined"
        /\ task[s].pending.ev.room = 2
        /\ task[s].pending.to = s
        /\ InRoom(task[s].user, 2)
        /\ \E i \in DOMAIN db_memberships :
              /\ db_memberships[i] = Row(2, task[s].user, 40)
              /\ 1112 * Abs(40 - RoomLatitude[2]) = boundary_radius[2]


UserLeft(u, r) == Ev("user_left", r, u, 0, {})
\* the step of session s is a step of the disconnect of its user
DisconnectStep(s) ==
    /\ task'[s] # task[s]
    /\ task'[s].pc \in {"fin", "closed"}
    /\ task[s].user \in Users

\* C21: the disconnect of user u sends nothing to u's own session; when it
\* removes u from a room with other occupants that are bound, the first of
\* them is sent user_left naming u; when the user_left broadcast of a room is
\* through, the occupants of the room that are bound are sent a member list
\* without u; and when the disconnect ends, it has done so for every room u
\* occupied: u is in no room together with an occupant that is bound.
C21_DisconnectNotifications ==
    [][\A s \in Sessions : DisconnectStep(s) =>
        LET u == task[s].user
            p == task[s].pending
            q == task'[s].pending
        IN  /\ q.kind = "user" =>
                  /\ q.to # s
                  /\ q.user # u
                  /\ q.ev.type \in {"user_left", "room_users_update"}
            /\ \A r \in Rooms :
                  LET others == (Occupants(r) \ {u}) \cap DOMAIN active_connections'
                  IN  (/\ InRoom(u, r)
                       /\ ~(r \in DOMAIN room_memberships' /\ u \in room_memberships'[r])
                       /\ others # {}) =>
                      /\ q.ev = UserLeft(u, r)
                      /\ q.user = Min(others)
            /\ (/\ task[s].pc = "fin"
                 /\ p.ev.type = "user_left"
                 /\ task[s].agenda # <<>>
                 /\ Head(task[s].agenda).op = "bcast_users"
                 /\ Occupants(p.ev.room) \cap DOMAIN active_connections' # {}) =>
                  /\ q.ev.type = "room_users_update"
                  /\ q.ev.room = p.ev.room
                  /\ u \notin q.ev.members
                  /\ q.user = Min(Occupants(p.ev.room) \cap DOMAIN active_connections')
            /\ task'[s].pc = "closed" =>
                  \A r \in DOMAIN room_memberships' :
                      u \in room_memberships'[r] =>
                      (room_memberships'[r] \ {u}) \cap DOMAIN active_connections' = {}
    ]_vars


\* C29: when update_user_location of u meets a friend with a stored location
\* for whose pair the proximity cache has no entry, it produces exactly one
\* event for the pair, 'entered', if the two are within 100 m, and no event
\* if they are not; likewise for a geofence for which u has no status entry:
\* exactly one 'entered' if u is within the radius, no event if not.  The
\* observation is recorded in both cases.
C29_FirstObservation ==
    [][\A u \in Users, lat \in LocLats :
        update_user_location(u, lat) =>
        /\ \A f \in Friends(u) :
              LET key == <<Min({u, f}), Max({u, f})>>
                  evs == {i \in DOMAIN proximity_events' :
                             {proximity_events'[i].user1, proximity_events'[i].user2}
                                 = {u, f}}
                  near == 1106 * Abs(lat - db_locations[f]) <= proximity_threshold
              IN  (f \in DOMAIN db_locations /\ key \notin DOMAIN proximity_cache) =>
                  /\ near => /\ Cardinality(evs) = 1
                              /\ \A i \in evs : proximity_events'[i].type = "entered"
                  /\ ~near => evs = {}
                  /\ key \in DOMAIN proximity_cache'
        /\ \A r \in DOMAIN active_geofences :
              LET evs == {i \in DOMAIN geofence_events' : geofence_events'[i].room = r}
                  inside == 1106 * Abs(lat - active_geofences[r].center_lat)
                                <= active_geofences[r].radius_meters
              IN  <<u, r>> \notin DOMAIN user_geofence_status =>
                  /\ inside => /\ Cardinality(evs) = 1
                                /\ \A i \in evs : /\ geofence_events'[i].type = "entered"
                                                  /\ geofence_events'[i].user = u
                  /\ ~inside => evs = {}
                  /\ <<u, r>> \in DOMAIN user_geofence_status'
    ]_vars
\* the last update produced 'entered' for a pair, and a user whose only
\* observations of a geofence were outside has a status entry and no event
C29_Witness ==
    /\ Len(proximity_events) = 1
    /\ proximity_events[1].type = "entered"
    /\ \A k \in DOMAIN proximity_cache : proximity_cache[k] <= proximity_threshold
    /\ \E u \in Users, r \in DOMAIN active_geofences :
          /\ <<u, r>> \in DOMAIN user_geofence_status
          /\ ~user_geofence_status[<<u, r>>]
          /\ last_geofence_event[u][r].type = "none"


\* the length of the path through the points, in mm
RECURSIVE PathLength(_)
PathLength(points) ==
    IF Len(points) < 2 THEN 0
    ELSE 1106 * Abs(points[2].latitude - points[1].latitude) + PathLength(Tail(points))
\* the classification of C27 for a history of points
Classified(h) ==
    LET last5 == IF Len(h) > 5 THEN SubSeq(h, Len(h) - 4, Len(h)) ELSE h
        elapsed == last5[Len(last5)].timestamp - last5[1].timestamp
    IN  IF Len(last5) < 2 THEN "unknown"
        ELSE IF elapsed = 0 THEN "unknown"
        ELSE IF 9 * PathLength(last5) < 2500 * elapsed THEN "stationary"
        ELSE IF 9 * PathLength(last5) < 20000 * elapsed THEN "walking"
        ELSE "driving"

\* C27: the movement state of a user is, over the last up to 5 points of the
\* user's history, unknown when there are fewer than 2 points or no time has
\* passed between the first and the last, and otherwise stationary below
\* 1 km/h average speed, walking from 1 to below 8 km/h, driving from 8 km/h.
C27_MovementClassification ==
    \A u \in DOMAIN movement_states :
        movement_states[u] = Classified(user_movement_history[u])


\* C28: after a turn of the proximity sweep, the proximity cache holds no
\* entry that no location update has written for more than 300 seconds.
C28_ProximityCacheSweep ==
    [][proximity_monitoring_loop =>
        \A k \in DOMAIN proximity_cache' : utcnow' - cache_touched'[k] <= 300]_vars


\* the step closes session s: its endpoint returns
ClosesSession(s) ==
    /\ task[s].pc # "closed"
    /\ task'[s].pc = "closed"
    /\ task[s].user \in Users
\* C22: when the session of a user is closed, the LocationService holds no
\* proximity-cache entry with the user in its key, no geofence-status entry
\* of the user and no location points of the user.
C22_DisconnectCleansTracker ==
    [][\A s \in Sessions : ClosesSession(s) =>
          LET u == task[s].user
          IN  /\ \A k \in DOMAIN proximity_cache' : k[1] # u /\ k[2] # u
              /\ \A k \in DOMAIN user_geofence_status' : k[1] # u
              /\ u \notin DOMAIN user_movement_history'
    ]_vars


\* the step has coroutine s call send_text on the transport of session t
SendAttempted(s, t) ==
    /\ task'[s] # task[s]
    /\ task'[s].pending.kind # "none"
    /\ task'[s].pending.to = t
\* C26: once a call of disconnect has taken a session out of
\* active_connections, no coroutine calls send_text on that session's
\* transport any more.
C26_NoSendsAfterClose ==
    [][\A s \in Sessions, t \in Sessions : SendAttempted(s, t) => t \notin unbound']_vars


\* the step in which the call of broadcast_to_all returns
BroadcastReturns ==
    /\ task[Broadcaster].pc # "returned"
    /\ task'[Broadcaster].pc = "returned"
\* session t is registered after the step
Registered(t) == \E u \in DOMAIN active_connections' : active_connections'[u] = t
\* C25: when broadcast_to_all returns, no connection was sent the event
\* twice, every connection that was registered at the call and is still
\* registered was sent it whether or not a send to another one failed, and
\* every connection whose send failed is registered no more and its user
\* is in no room.
C25_BroadcastToAllSelfHealing ==
    [][BroadcastReturns =>
          \A t \in DOMAIN broadcast_log' :
              /\ broadcast_log'[t] # "twice"
              /\ broadcast_log'[t] = "registered" => ~Registered(t)
              /\ broadcast_log'[t] = "failed" =>
                    /\ ~Registered(t)
                    /\ \A r \in DOMAIN room_memberships' :
                          task[t].user \notin room_memberships'[r]
    ]_vars


NewerLive(s1, s2) ==
    /\ s1 < s2
    /\ task[s1].user \in Users
    /\ task[s2].user = task[s1].user
    /\ Bound(s2)
    /\ ws[s2] = "open"
\* the step runs the finally-block of the endpoint of s1
ClosesOlder(s1) ==
    /\ task'[s1] # task[s1]
    /\ task[s1].pc \in {"run", "idle", "fin"}
    /\ task'[s1].pc \in {"fin", "closed"}
\* the step runs the except branch of _send_to_user for a send to s1
SendFailureOn(s1) ==
    \E c \in Sessions :
        /\ task'[c] # task[c]
        /\ task[c].pending.kind = "user"
        /\ task[c].pending.to = s1
        /\ ~task[c].pending.ok
\* C32: while a later session s2 of a user is registered and open, neither
\* the close of an older session s1 of the user nor a failed send to s1
\* takes s2 out of active_connections or the user out of a room.
C32_NewerSessionSurvives ==
    [][\A s1 \in Sessions, s2 \in Sessions :
          (NewerLive(s1, s2) /\ (ClosesOlder(s1) \/ SendFailureOn(s1))) =>
              LET u == task[s1].user
              IN  /\ u \in DOMAIN active_connections'
                  /\ active_connections'[u] = s2
                  /\ \A r \in DOMAIN room_memberships :
                        u \in room_memberships[r] =>
                            /\ r \in DOMAIN room_memberships'
                            /\ u \in room_memberships'[r]
    ]_vars


\* the step in which the call of broadcast_to_all ends
BroadcastEnds ==
    /\ task[Broadcaster].pc \in {"init", "call"}
    /\ task'[Broadcaster].pc \in {"returned", "raised"}
\* C33: whatever connects, disconnects or is unbound while broadcast_to_all
\* is suspended in a send, the call ends by returning, and every connection
\* that was registered at the call and is registered at its end was sent the
\* event.
C33_BroadcastToleratesChanges ==
    [][BroadcastEnds =>
          /\ task'[Broadcaster].pc = "returned"
          /\ \A t \in DOMAIN broadcast_log' :
                Registered(t) => broadcast_log'[t] = "sent"
    ]_vars


\* C34: the proximity cache has one entry for a pair of users, whichever of
\* them updates.  When the last event of the pair is an 'entered' that an
\* update of a produced, an update of b that keeps the two within 100 m
\* produces no event for the pair and one that moves b farther away produces
\* exactly one 'exited'; no event of a pair has the type of the pair's event
\* before it, whoever moved.
C34_PairSharedState ==
    [][\A b \in Users, lat \in LocLats :
        update_user_location(b, lat) =>
        /\ \A k \in DOMAIN proximity_cache' : k[1] < k[2]
        /\ \A a \in Friends(b) :
              LET key == <<Min({a, b}), Max({a, b})>>
                  evs == {i \in DOMAIN proximity_events' :
                             {proximity_events'[i].user1, proximity_events'[i].user2}
                                 = {a, b}}
                  within == /\ a \in DOMAIN db_locations
                            /\ 1106 * Abs(lat - db_locations[a]) <= proximity_threshold
              IN  /\ (last_proximity_event[key] = "entered" /\ proximity_trail.by[key] = a) =>
                        IF within THEN evs = {}
                        ELSE /\ Cardinality(evs) = 1
                             /\ \A i \in evs : proximity_events'[i].type = "exited"
                  /\ \A i \in evs : proximity_events'[i].type # last_proximity_event[key]
    ]_vars
\* the last event of users 1 and 2 is an 'entered' from an update of user 1,
\* and the last update, of user 2 at another place within 100 m, produced no
\* event
C34_Witness ==
    /\ last_proximity_event[<<1, 2>>] = "entered"
    /\ proximity_trail.by[<<1, 2>>] = 1
    /\ proximity_trail.updater = 2
    /\ proximity_events = <<>>
    /\ db_locations[1] # db_locations[2]
    /\ StoredWithin(1, 2)


\* C35: when disconnect_all returns, with no connect since it was called,
\* active_connections and room_memberships are empty.
C35_ShutdownLeavesNothing ==
    [][(ShutdownStarted' /\ BroadcastReturns) =>
          /\ DOMAIN active_connections' = {}
          /\ DOMAIN room_memberships' = {}
    ]_vars


\* C36: every key of user_geofence_status names a room of active_geofences;
\* remove_geofence of a room deletes its geofence and its status entries and
\* leaves the status entries of the other rooms as they are; an
\* update_user_location adds status entries for rooms of active_geofences
\* only, and only for its user.
C36_StatusOfExistingGeofences ==
    /\ [](\A k \in DOMAIN user_geofence_status : k[2] \in DOMAIN active_geofences)
    /\ [][/\ \A r \in StatusRooms :
               remove_geofence(r) =>
                   /\ r \notin DOMAIN active_geofences'
                   /\ DOMAIN user_geofence_status' =
                         {k \in DOMAIN user_geofence_status : k[2] # r}
                   /\ \A k \in DOMAIN user_geofence_status' :
                         user_geofence_status'[k] = user_geofence_status[k]
           /\ \A u \in Users, lat \in StatusLats :
               update_user_location(u, lat) =>
                   \A k \in DOMAIN user_geofence_status' \ DOMAIN user_geofence_status :
                       k[1] = u /\ k[2] \in DOMAIN active_geofences
         ]_vars
\* a geofence was removed (its room has had an event and has no geofence
\* now), while both users have a status for the other room
C36_Witness ==
    /\ DOMAIN active_geofences = {2}
    /\ \E u \in Users : last_geofence_event[u][1].removed
    /\ \A u \in Users : <<u, 2>> \in DOMAIN user_geofence_status


\* C37: every user of an in-memory occupant set room_memberships[r] has an
\* active membership row for r in the store.
C37_OccupancyBackedByStore ==
    \A r \in DOMAIN room_memberships :
        \A u \in room_memberships[r] : IsActiveMember(db_memberships, r, u)

=============================================================================
